---- MODULE Spec2Model ----
(***************************************************************************)
(* Model of the affilai recommendation core: the attribute parsers, the    *)
(* platform scorer (services/ai_affiliate.rs), the ad-type scorer          *)
(* (services/analytics_service.rs) and the tracking-URL builder.           *)
(*                                                                         *)
(* Text is a sequence of one-character strings.  A character outside       *)
(* ASCII is written as a named token ("EN_DASH", "A_CIRC", "EURO",         *)
(* "LDQUO").  f64 values are IEEE-754 binary64 numbers m * 2^e with the     *)
(* 53-bit significand m held in 14-bit limbs, and every product and sum    *)
(* is rounded to nearest, ties to even, as the hardware does.              *)
(***************************************************************************)
EXTENDS Integers, Sequences, FiniteSets, TLC

VARIABLES product, ret, now, db, calls

vars == <<product, ret, now, db, calls>>

\* ------------------------------------------------------------------------
\* Option<T>: None is the empty set, Some(x) the singleton
\* ------------------------------------------------------------------------
None == {}
Some(x) == {x}
is_some(o) == o # {}
unwrap_or(o, d) == IF o = {} THEN d ELSE CHOOSE x \in o : TRUE

\* ------------------------------------------------------------------------
\* f64 arithmetic (IEEE-754 binary64, round to nearest even)
\* ------------------------------------------------------------------------
LimbBits == 14
LimbBase == 16384
MantBits == 53
MantLimbs == 4
WideLimbs == 8

Pow2(n) == 2 ^ n

Limb(v, i) == IF i >= 1 /\ i <= Len(v) THEN v[i] ELSE 0

SmallBitLen(x) == CHOOSE k \in 0..31 : (k = 0 \/ x >= Pow2(k - 1)) /\ (k = 31 \/ x < Pow2(k))

TopLimb(v) ==
    IF \A i \in 1..Len(v) : v[i] = 0 THEN 0
    ELSE CHOOSE i \in 1..Len(v) : v[i] # 0 /\ \A j \in (i + 1)..Len(v) : v[j] = 0

BitLen(v) ==
    IF TopLimb(v) = 0 THEN 0
    ELSE (TopLimb(v) - 1) * LimbBits + SmallBitLen(v[TopLimb(v)])

Bit(v, i) == (Limb(v, (i \div LimbBits) + 1) \div Pow2(i % LimbBits)) % 2

\* some bit below position t is set
LowNonZero(v, t) ==
    \E i \in 1..Len(v) :
        IF LimbBits * i <= t THEN v[i] # 0
        ELSE IF LimbBits * (i - 1) < t THEN v[i] % Pow2(t - LimbBits * (i - 1)) # 0
        ELSE FALSE

\* v shifted right / left by s bits, as n limbs
Shr(v, s, n) ==
    LET ls == s \div LimbBits
        r  == s % LimbBits
    IN  [i \in 1..n |-> (Limb(v, i + ls) \div Pow2(r))
                        + (Limb(v, i + ls + 1) % Pow2(r)) * Pow2(LimbBits - r)]

Shl(v, s, n) ==
    LET ls == s \div LimbBits
        r  == s % LimbBits
    IN  [i \in 1..n |-> (Limb(v, i - ls) % Pow2(LimbBits - r)) * Pow2(r)
                        + (Limb(v, i - ls - 1) \div Pow2(LimbBits - r))]

RECURSIVE AddC(_, _, _, _)
AddC(a, b, i, c) ==
    IF i > Len(a) THEN <<>>
    ELSE LET s == a[i] + Limb(b, i) + c
         IN  <<s % LimbBase>> \o AddC(a, b, i + 1, s \div LimbBase)

Add(a, b) == AddC(a, b, 1, 0)

Inc(a) == AddC(a, <<1>>, 1, 0)

Col(a, b, k) ==
    Limb(a, 1) * Limb(b, k) + Limb(a, 2) * Limb(b, k - 1)
    + Limb(a, 3) * Limb(b, k - 2) + Limb(a, 4) * Limb(b, k - 3)

RECURSIVE MulC(_, _, _, _)
MulC(a, b, k, c) ==
    IF k > WideLimbs THEN <<>>
    ELSE LET s == Col(a, b, k) + c
         IN  <<s % LimbBase>> \o MulC(a, b, k + 1, s \div LimbBase)

Mul(a, b) == MulC(a, b, 1, 0)

Cmp(a, b) ==
    IF \A i \in 1..Len(a) : a[i] = b[i] THEN 0
    ELSE LET t == CHOOSE i \in 1..Len(a) :
                      a[i] # b[i] /\ \A j \in (i + 1)..Len(a) : a[j] = b[j]
         IN  IF a[t] > b[t] THEN 1 ELSE -1

RECURSIVE DivSmall(_, _, _, _)
DivSmall(a, d, i, r) ==
    IF i = 0 THEN [q |-> <<>>, r |-> r]
    ELSE LET cur  == r * LimbBase + a[i]
             rest == DivSmall(a, d, i - 1, cur % d)
         IN  [q |-> rest.q \o <<cur \div d>>, r |-> rest.r]

\* v without its s low bits, rounded to nearest, ties to even, as n limbs
RoundShift(v, s, n) ==
    LET q  == Shr(v, s, n)
        up == s > 0 /\ Bit(v, s - 1) = 1 /\ (LowNonZero(v, s - 1) \/ q[1] % 2 = 1)
    IN  IF up THEN Inc(q) ELSE q

FZero == [m |-> <<0, 0, 0, 0>>, e |-> 0]

IsZero(x) == TopLimb(x.m) = 0

FNorm(m, e) ==
    IF BitLen(m) = MantBits + 1 THEN [m |-> Shr(m, 1, MantLimbs), e |-> e + 1]
    ELSE [m |-> m, e |-> e]

\* the f64 nearest to the decimal n / d, as the compiler reads a literal
FLit(n, d) ==
    IF n = 0 THEN FZero
    ELSE LET s0 == MantBits + SmallBitLen(d) - SmallBitLen(n)
             q0 == DivSmall(Shl(<<n>>, s0, WideLimbs), d, WideLimbs, 0).q
             s  == IF BitLen(q0) > MantBits THEN s0 - 1 ELSE s0
             dv == DivSmall(Shl(<<n>>, s, WideLimbs), d, WideLimbs, 0)
             q  == SubSeq(dv.q, 1, MantLimbs)
             up == 2 * dv.r > d \/ (2 * dv.r = d /\ q[1] % 2 = 1)
         IN  FNorm(IF up THEN Inc(q) ELSE q, 0 - s)

FMulRaw(x, y) ==
    IF IsZero(x) \/ IsZero(y) THEN FZero
    ELSE LET p == Mul(x.m, y.m)
             s == BitLen(p) - MantBits
         IN  FNorm(RoundShift(p, s, MantLimbs), x.e + y.e + s)

FAdd(x, y) ==
    IF IsZero(x) THEN y
    ELSE IF IsZero(y) THEN x
    ELSE IF x.e - y.e > MantBits THEN x
    ELSE IF y.e - x.e > MantBits THEN y
    ELSE LET lo == IF x.e < y.e THEN x.e ELSE y.e
             t  == Add(Shl(x.m, x.e - lo, WideLimbs), Shl(y.m, y.e - lo, WideLimbs))
             s  == BitLen(t) - MantBits
         IN  FNorm(RoundShift(t, s, MantLimbs), lo + s)

\* partial_cmp on two non-negative finite values: -1, 0, 1
FCmp(x, y) ==
    IF IsZero(x) THEN (IF IsZero(y) THEN 0 ELSE -1)
    ELSE IF IsZero(y) THEN 1
    ELSE IF x.e > y.e THEN 1
    ELSE IF x.e < y.e THEN -1
    ELSE Cmp(x.m, y.m)

FGt(x, y) == FCmp(x, y) = 1
FGe(x, y) == FCmp(x, y) >= 0
FLe(x, y) == FCmp(x, y) <= 0

\* the literals of the source have at most two decimals: Hundredths[n] is n/100
Hundredths == (0 :> FZero) @@ [n \in 1..100 |-> FLit(n, 100)]

F(n) == Hundredths[n]

\* products of two literals, computed once: LitProduct[<<a, b>>] is F(a) * F(b)
Weights == {10, 15, 20, 25, 30, 35, 50}

LitProduct ==
    (<<0, 0>> :> FZero) @@ [p \in (0..100) \X Weights |-> FMulRaw(F(p[1]), F(p[2]))]

\* x * y in f64
FMul(x, y) == FMulRaw(x, y)

\* the sub-score literal a/100 times the weight literal w/100
Weighted(a, w) == LitProduct[<<a, w>>]

\* ------------------------------------------------------------------------
\* i32 arithmetic
\* ------------------------------------------------------------------------
I32Max == 2147483647

\* a + b on i32 operands >= 0: the sum, and whether it left the i32 range.  A build
\* with overflow checks panics there; a build without them wraps modulo 2^32.
I32Add(a, b) ==
    IF a > I32Max - b
    THEN [overflow |-> TRUE, v |-> (a - I32Max - 1) + (b - I32Max - 1)]
    ELSE [overflow |-> FALSE, v |-> a + b]

\* i32 division by b > 0 truncates toward zero: the ceiling for a negative dividend
I32Div(a, b) == IF a >= 0 THEN a \div b ELSE (a + (b - 1)) \div b

\* ------------------------------------------------------------------------
\* Text
\* ------------------------------------------------------------------------
DigitChars == <<"0", "1", "2", "3", "4", "5", "6", "7", "8", "9">>

IsDigit(c) == \E i \in 1..10 : DigitChars[i] = c

DigitVal(c) == (CHOOSE i \in 1..10 : DigitChars[i] = c) - 1

\* \s of the regex crate, over the characters the texts here use
IsSpace(c) == c \in {" ", "\t"}

\* "ABCDEFGHIJKLMNOPQRSTUVWXYZ"
UpperChars == <<"A", "B", "C", "D", "E", "F", "G", "H", "I", "J", "K", "L", "M", "N", "O", "P",
                "Q", "R", "S", "T", "U", "V", "W", "X", "Y", "Z">>

\* "abcdefghijklmnopqrstuvwxyz"
LowerChars == <<"a", "b", "c", "d", "e", "f", "g", "h", "i", "j", "k", "l", "m", "n", "o", "p",
                "q", "r", "s", "t", "u", "v", "w", "x", "y", "z">>

LowerChar(c) ==
    IF \E i \in 1..26 : UpperChars[i] = c
    THEN LowerChars[CHOOSE i \in 1..26 : UpperChars[i] = c]
    ELSE c

\* Iterator::collect into a Vec or String: the elements, each computed once
collect(s) == s \o <<>>

to_lowercase(s) == collect([i \in 1..Len(s) |-> LowerChar(s[i])])

contains(s, pat) ==
    \E i \in 1..(Len(s) - Len(pat) + 1) : SubSeq(s, i, i + Len(pat) - 1) = pat

replace(s, from, to) == collect([i \in 1..Len(s) |-> IF s[i] = from THEN to ELSE s[i]])

\* the index after the longest run of digits (of white space) that starts at i
DigitRunEnd(s, i) ==
    CHOOSE j \in i..(Len(s) + 1) :
        /\ \A k \in i..(j - 1) : IsDigit(s[k])
        /\ (j = Len(s) + 1 \/ ~IsDigit(s[j]))

SpaceRunEnd(s, i) ==
    CHOOSE j \in i..(Len(s) + 1) :
        /\ \A k \in i..(j - 1) : IsSpace(s[k])
        /\ (j = Len(s) + 1 \/ ~IsSpace(s[j]))

CharAt(s, i) == IF i >= 1 /\ i <= Len(s) THEN s[i] ELSE "EOF"

\* str::parse::<i32> of a run of ASCII digits: Err (the empty set) when the value
\* does not fit an i32
RECURSIVE ParseDigits(_, _, _)
ParseDigits(s, i, acc) ==
    IF i > Len(s) THEN Some(acc)
    ELSE IF acc > I32Max \div 10 THEN None
    ELSE IF DigitVal(s[i]) > I32Max - acc * 10 THEN None
    ELSE ParseDigits(s, i + 1, acc * 10 + DigitVal(s[i]))

parse_i32(s) == ParseDigits(s, 1, 0)

\* The character class written [-...] in both age patterns holds the hyphen and
\* the three characters of a mis-decoded en dash; the en dash itself is not in it.
RangeSepChars == {"-", "A_CIRC", "EURO", "LDQUO"}

IsRangeSep(c) == c \in RangeSepChars

\* ------------------------------------------------------------------------
\* ai_affiliate.rs: attribute parsers
\* ------------------------------------------------------------------------

\* (?i)age[s]?\s+(\d+)[-...]\s*(\d+) tried at position i
AgePatternAt(s, i) ==
    LET p1 == i + 3
        p2 == IF LowerChar(CharAt(s, p1)) = "s" THEN p1 + 1 ELSE p1
        p3 == SpaceRunEnd(s, p2)
        p4 == DigitRunEnd(s, p3)
        p5 == SpaceRunEnd(s, p4 + 1)
        p6 == DigitRunEnd(s, p5)
    IN  IF /\ i + 2 <= Len(s)
           \* "age"
           /\ to_lowercase(SubSeq(s, i, i + 2)) = <<"a", "g", "e">>
           /\ p2 <= Len(s) /\ p3 > p2
           /\ p3 <= Len(s) /\ p4 > p3
           /\ p4 <= Len(s) /\ IsRangeSep(s[p4])
           /\ p5 <= Len(s) /\ p6 > p5
        THEN Some([min |-> SubSeq(s, p3, p4 - 1), max |-> SubSeq(s, p5, p6 - 1)])
        ELSE None

\* Regex::captures: the leftmost match
AgePatternCaptures(s) ==
    IF \E i \in 1..Len(s) : is_some(AgePatternAt(s, i))
    THEN AgePatternAt(s, CHOOSE i \in 1..Len(s) :
             is_some(AgePatternAt(s, i)) /\ \A j \in 1..(i - 1) : ~is_some(AgePatternAt(s, j)))
    ELSE None

extract_age_range(target_audience) ==
    LET caps == AgePatternCaptures(target_audience)
        c    == unwrap_or(caps, [min |-> <<>>, max |-> <<>>])
    IN  IF is_some(caps)
        THEN <<unwrap_or(parse_i32(c.min), 25), unwrap_or(parse_i32(c.max), 45)>>
        ELSE <<25, 45>>

\* \$?(\d+) tried at position i
PricePatternAt(s, i) ==
    LET p1 == IF s[i] = "$" /\ IsDigit(CharAt(s, i + 1)) THEN i + 1 ELSE i
        p2 == DigitRunEnd(s, p1)
    IN  IF p2 > p1 THEN Some(SubSeq(s, p1, p2 - 1)) ELSE None

PricePatternCaptures(s) ==
    IF \E i \in 1..Len(s) : is_some(PricePatternAt(s, i))
    THEN PricePatternAt(s, CHOOSE i \in 1..Len(s) :
             is_some(PricePatternAt(s, i)) /\ \A j \in 1..(i - 1) : ~is_some(PricePatternAt(s, j)))
    ELSE None

parse_price_tier(price_range) ==
    LET caps  == PricePatternCaptures(price_range)
        price == unwrap_or(parse_i32(unwrap_or(caps, <<>>)), 100)
    IN  IF is_some(caps)
        THEN IF price < 50 THEN "Low"
             ELSE IF price < 150 THEN "Medium"
             ELSE IF price < 500 THEN "High"
             ELSE "Premium"
        ELSE "Medium"

\* ------------------------------------------------------------------------
\* analytics_service.rs: attribute parser
\* ------------------------------------------------------------------------

\* (\d{2})[-...]\s*(\d{2}) tried at position i
AgeRangePatternAt(s, i) ==
    LET p == SpaceRunEnd(s, i + 3)
    IN  IF /\ i + 2 <= Len(s)
           /\ IsDigit(s[i]) /\ IsDigit(s[i + 1]) /\ IsRangeSep(s[i + 2])
           /\ p + 1 <= Len(s)
           /\ IsDigit(s[p]) /\ IsDigit(s[p + 1])
        THEN Some([min |-> SubSeq(s, i, i + 1), max |-> SubSeq(s, p, p + 1)])
        ELSE None

AgeRangePatternCaptures(s) ==
    IF \E i \in 1..Len(s) : is_some(AgeRangePatternAt(s, i))
    THEN AgeRangePatternAt(s, CHOOSE i \in 1..Len(s) :
             is_some(AgeRangePatternAt(s, i))
             /\ \A j \in 1..(i - 1) : ~is_some(AgeRangePatternAt(s, j)))
    ELSE None

analytics_extract_age_range(audience) ==
    LET caps == AgeRangePatternCaptures(audience)
        c    == unwrap_or(caps, [min |-> <<>>, max |-> <<>>])
    IN  IF is_some(caps)
        THEN <<unwrap_or(parse_i32(c.min), 25), unwrap_or(parse_i32(c.max), 45)>>
        \* "gen z", "genz"
        ELSE IF contains(audience, <<"g", "e", "n", " ", "z">>) \/ contains(audience, <<"g", "e", "n", "z">>) THEN <<18, 25>>
        \* "millennial"
        ELSE IF contains(audience, <<"m", "i", "l", "l", "e", "n", "n", "i", "a", "l">>) THEN <<26, 40>>
        \* "gen x", "genx"
        ELSE IF contains(audience, <<"g", "e", "n", " ", "x">>) \/ contains(audience, <<"g", "e", "n", "x">>) THEN <<41, 55>>
        \* "boomer", "senior"
        ELSE IF contains(audience, <<"b", "o", "o", "m", "e", "r">>) \/ contains(audience, <<"s", "e", "n", "i", "o",
                                                                       "r">>) THEN <<56, 70>>
        ELSE <<25, 45>>

\* ------------------------------------------------------------------------
\* models/affiliate_link.rs
\* ------------------------------------------------------------------------
AffiliatePlatform ==
    {"TikTokShop", "InstagramShopping", "AmazonAssociates", "YouTubeShopping",
     "PinterestBuyable", "FacebookShops"}

PlatformToString(p) ==
    \* "tiktok"
    CASE p = "TikTokShop" -> <<"t", "i", "k", "t", "o", "k">>
      \* "instagram"
      [] p = "InstagramShopping" -> <<"i", "n", "s", "t", "a", "g", "r", "a", "m">>
      \* "amazon"
      [] p = "AmazonAssociates" -> <<"a", "m", "a", "z", "o", "n">>
      \* "youtube"
      [] p = "YouTubeShopping" -> <<"y", "o", "u", "t", "u", "b", "e">>
      \* "pinterest"
      [] p = "PinterestBuyable" -> <<"p", "i", "n", "t", "e", "r", "e", "s", "t">>
      \* "facebook"
      [] p = "FacebookShops" -> <<"f", "a", "c", "e", "b", "o", "o", "k">>

\* ------------------------------------------------------------------------
\* ai_affiliate.rs: platform scorer
\* ------------------------------------------------------------------------
avg_age(age_range) == I32Div(I32Add(age_range[1], age_range[2]).v, 2)

\* sub-scores are the literals of the tables, in hundredths
calculate_age_alignment(platform, age_range) ==
    LET avg == avg_age(age_range)
    \* "tiktok"
    IN  CASE platform = <<"t", "i", "k", "t", "o", "k">> ->
                 IF avg >= 18 /\ avg <= 30 THEN 100
                 ELSE IF avg < 35 THEN 80
                 ELSE IF avg < 40 THEN 50
                 ELSE 20
          \* "instagram"
          [] platform = <<"i", "n", "s", "t", "a", "g", "r", "a", "m">> ->
                 IF avg >= 22 /\ avg <= 40 THEN 100
                 ELSE IF avg >= 18 /\ avg <= 45 THEN 80
                 ELSE IF avg < 50 THEN 60
                 ELSE 30
          \* "youtube"
          [] platform = <<"y", "o", "u", "t", "u", "b", "e">> ->
                 IF avg >= 25 /\ avg <= 55 THEN 100
                 ELSE IF avg >= 18 THEN 70
                 ELSE 40
          \* "pinterest"
          [] platform = <<"p", "i", "n", "t", "e", "r", "e", "s", "t">> ->
                 IF avg >= 30 /\ avg <= 50 THEN 100
                 ELSE IF avg >= 25 /\ avg <= 55 THEN 80
                 ELSE 40
          \* "amazon"
          [] platform = <<"a", "m", "a", "z", "o", "n">> -> 90
          [] OTHER -> 50

calculate_category_fit(platform, category) ==
    \* "tiktok"
    CASE platform = <<"t", "i", "k", "t", "o", "k">> ->
             \* "Beauty & Skincare", "Fashion & Apparel"
             IF category \in {<<"B", "e", "a", "u", "t", "y", " ", "&", " ", "S", "k", "i", "n",
                                "c", "a", "r", "e">>, <<"F", "a", "s", "h", "i", "o", "n", " ", "&",
                                                       " ",
                                                       "A",
                                                       "p",
                                                       "p",
                                                       "a",
                                                       "r",
                                                       "e",
                                                       "l">>} THEN 100
             \* "Health & Wellness", "Fitness & Recovery"
             ELSE IF category \in {<<"H", "e", "a", "l", "t", "h", " ", "&", " ", "W", "e", "l",
                                     "l", "n", "e", "s", "s">>, <<"F", "i", "t", "n", "e", "s", "s", " ",
                                                            "&",
                                                            " ",
                                                            "R",
                                                            "e",
                                                            "c",
                                                            "o",
                                                            "v",
                                                            "e",
                                                            "r",
                                                            "y">>} THEN 90
             \* "Consumer Electronics"
             ELSE IF category = <<"C", "o", "n", "s", "u", "m", "e", "r", " ", "E", "l", "e", "c",
                                  "t", "r", "o", "n", "i", "c",
                                  "s">> THEN 70
             \* "Wearable Health Technology"
             ELSE IF category = <<"W", "e", "a", "r", "a", "b", "l", "e", " ", "H", "e", "a", "l",
                                  "t", "h", " ", "T", "e", "c",
                                  "h", "n", "o", "l", "o", "g",
                                  "y">> THEN 80
             ELSE 50
      \* "instagram"
      [] platform = <<"i", "n", "s", "t", "a", "g", "r", "a", "m">> ->
             \* "Beauty & Skincare", "Fashion & Apparel"
             IF category \in {<<"B", "e", "a", "u", "t", "y", " ", "&", " ", "S", "k", "i", "n",
                                "c", "a", "r", "e">>, <<"F", "a", "s", "h", "i", "o", "n", " ", "&",
                                                       " ",
                                                       "A",
                                                       "p",
                                                       "p",
                                                       "a",
                                                       "r",
                                                       "e",
                                                       "l">>} THEN 100
             \* "Home & Kitchen", "Health & Wellness"
             ELSE IF category \in {<<"H", "o", "m", "e", " ", "&", " ", "K", "i", "t", "c", "h",
                                     "e", "n">>, <<"H", "e", "a", "l", "t", "h", " ", "&",
                                                         " ",
                                                         "W",
                                                         "e",
                                                         "l",
                                                         "l",
                                                         "n",
                                                         "e",
                                                         "s",
                                                         "s">>} THEN 90
             \* "Fitness & Recovery"
             ELSE IF category = <<"F", "i", "t", "n", "e", "s", "s", " ", "&", " ", "R", "e", "c",
                                  "o", "v", "e", "r", "y">> THEN 80
             ELSE 60
      \* "youtube"
      [] platform = <<"y", "o", "u", "t", "u", "b", "e">> ->
             \* "Consumer Electronics", "Wearable Health Technology"
             IF category \in {<<"C", "o", "n", "s", "u", "m", "e", "r", " ", "E", "l", "e", "c",
                                "t", "r", "o", "n", "i", "c", "s">>, <<"W", "e", "a", "r", "a", "b", "l", "e",
                                                          " ",
                                                          "H",
                                                          "e",
                                                          "a",
                                                          "l",
                                                          "t",
                                                          "h",
                                                          " ",
                                                          "T",
                                                          "e",
                                                          "c",
                                                          "h",
                                                          "n",
                                                          "o",
                                                          "l",
                                                          "o",
                                                          "g",
                                                          "y">>} THEN 100
             \* "Fitness & Recovery", "Health & Wellness"
             ELSE IF category \in {<<"F", "i", "t", "n", "e", "s", "s", " ", "&", " ", "R", "e",
                                     "c", "o", "v", "e", "r",
                                     "y">>, <<"H", "e", "a", "l", "t", "h", " ",
                                                             "&",
                                                             " ",
                                                             "W",
                                                             "e",
                                                             "l",
                                                             "l",
                                                             "n",
                                                             "e",
                                                             "s",
                                                             "s">>} THEN 90
             \* "Home & Kitchen"
             ELSE IF category = <<"H", "o", "m", "e", " ", "&", " ", "K", "i", "t", "c", "h", "e",
                                  "n">> THEN 80
             ELSE 70
      \* "pinterest"
      [] platform = <<"p", "i", "n", "t", "e", "r", "e", "s", "t">> ->
             \* "Home & Kitchen", "Fashion & Apparel"
             IF category \in {<<"H", "o", "m", "e", " ", "&", " ", "K", "i", "t", "c", "h", "e",
                                "n">>, <<"F", "a", "s", "h", "i", "o", "n", " ", "&",
                                                    " ",
                                                    "A",
                                                    "p",
                                                    "p",
                                                    "a",
                                                    "r",
                                                    "e",
                                                    "l">>} THEN 100
             \* "Beauty & Skincare"
             ELSE IF category = <<"B", "e", "a", "u", "t", "y", " ", "&", " ", "S", "k", "i", "n",
                                  "c", "a", "r", "e">> THEN 90
             \* "Health & Wellness"
             ELSE IF category = <<"H", "e", "a", "l", "t", "h", " ", "&", " ", "W", "e", "l", "l",
                                  "n", "e", "s", "s">> THEN 80
             ELSE 60
      \* "amazon"
      [] platform = <<"a", "m", "a", "z", "o", "n">> -> 100
      [] OTHER -> 50

calculate_trending_fit(platform, trending_score) ==
    \* "tiktok"
    CASE platform = <<"t", "i", "k", "t", "o", "k">> ->
             IF trending_score >= 85 THEN 100
             ELSE IF trending_score >= 75 THEN 80
             ELSE IF trending_score >= 65 THEN 50
             ELSE 30
      \* "instagram"
      [] platform = <<"i", "n", "s", "t", "a", "g", "r", "a", "m">> ->
             IF trending_score >= 70 THEN 100
             ELSE IF trending_score >= 60 THEN 80
             ELSE 60
      \* "youtube", "pinterest"
      [] platform \in {<<"y", "o", "u", "t", "u", "b", "e">>, <<"p", "i", "n", "t", "e", "r", "e", "s", "t">>} ->
             IF trending_score >= 60 THEN 100 ELSE 80
      \* "amazon"
      [] platform = <<"a", "m", "a", "z", "o", "n">> -> 90
      [] OTHER -> 50

calculate_price_fit(platform, price_tier) ==
    \* "tiktok"
    CASE platform = <<"t", "i", "k", "t", "o", "k">> ->
             IF price_tier \in {"Low", "Medium"} THEN 100
             ELSE IF price_tier = "High" THEN 60
             ELSE 30
      \* "instagram"
      [] platform = <<"i", "n", "s", "t", "a", "g", "r", "a", "m">> ->
             IF price_tier \in {"Low", "Medium", "High"} THEN 100 ELSE 70
      \* "youtube"
      [] platform = <<"y", "o", "u", "t", "u", "b", "e">> ->
             IF price_tier \in {"Medium", "High", "Premium"} THEN 100 ELSE 70
      \* "pinterest"
      [] platform = <<"p", "i", "n", "t", "e", "r", "e", "s", "t">> ->
             IF price_tier \in {"Low", "Medium"} THEN 100
             ELSE IF price_tier = "High" THEN 80
             ELSE 50
      \* "amazon"
      [] platform = <<"a", "m", "a", "z", "o", "n">> -> 100
      [] OTHER -> 50

\* (50% age, 25% category, 15% trending, 10% price), summed left to right in f64
calculate_platform_score(platform, category, trending_score, age_range, price_tier) ==
    LET age_score      == Weighted(calculate_age_alignment(platform, age_range), 50)
        category_score == Weighted(calculate_category_fit(platform, category), 25)
        trending_fit   == Weighted(calculate_trending_fit(platform, trending_score), 15)
        price_score    == Weighted(calculate_price_fit(platform, price_tier), 10)
    IN  FAdd(FAdd(FAdd(age_score, category_score), trending_fit), price_score)

RECURSIVE NatToText(_)
NatToText(n) ==
    IF n < 10 THEN <<DigitChars[n + 1]>>
    ELSE NatToText(n \div 10) \o <<DigitChars[(n % 10) + 1]>>

Slug(product_name, sep) == replace(to_lowercase(product_name), " ", sep)

generate_recommendation_reason(platform, age_range, category) ==
    \* "-"
    LET ages == NatToText(age_range[1]) \o <<"-">> \o NatToText(age_range[2])
    \* "tiktok"
    IN  CASE platform = <<"t", "i", "k", "t", "o", "k">> ->
                 \* "Strong match for ages ", ", "
                 <<"S", "t", "r", "o", "n", "g", " ", "m", "a", "t", "c", "h", " ", "f", "o", "r",
                   " ", "a", "g", "e", "s", " ">> \o ages \o <<",", " ">> \o category
                 \* " performs well on TikTok"
                 \o <<" ", "p", "e", "r", "f", "o", "r", "m", "s", " ", "w", "e", "l", "l", " ",
                      "o", "n", " ", "T", "i", "k", "T", "o", "k">>
          \* "instagram"
          [] platform = <<"i", "n", "s", "t", "a", "g", "r", "a", "m">> ->
                 \* "Ideal for ages ", ", visual platform for "
                 <<"I", "d", "e", "a", "l", " ", "f", "o", "r", " ", "a", "g", "e", "s", " ">> \o ages \o <<",", " ", "v", "i", "s", "u", "a", "l", " ", "p",
                                                  "l",
                                                  "a",
                                                  "t",
                                                  "f",
                                                  "o",
                                                  "r",
                                                  "m",
                                                  " ",
                                                  "f",
                                                  "o",
                                                  "r",
                                                  " ">> \o category
          \* "youtube"
          [] platform = <<"y", "o", "u", "t", "u", "b", "e">> ->
                 \* "Great for ages ", ", detailed reviews boost "
                 <<"G", "r", "e", "a", "t", " ", "f", "o", "r", " ", "a", "g", "e", "s", " ">> \o ages \o <<",", " ", "d", "e", "t", "a", "i", "l", "e", "d",
                                                  " ",
                                                  "r",
                                                  "e",
                                                  "v",
                                                  "i",
                                                  "e",
                                                  "w",
                                                  "s",
                                                  " ",
                                                  "b",
                                                  "o",
                                                  "o",
                                                  "s",
                                                  "t",
                                                  " ">> \o category
                 \* " sales"
                 \o <<" ", "s", "a", "l", "e", "s">>
          \* "pinterest"
          [] platform = <<"p", "i", "n", "t", "e", "r", "e", "s", "t">> ->
                 \* "Perfect for ages ", ", discovery-driven for "
                 <<"P", "e", "r", "f", "e", "c", "t", " ", "f", "o", "r", " ", "a", "g", "e", "s",
                   " ">> \o ages \o <<",", " ", "d", "i", "s", "c", "o", "v", "e",
                                                    "r",
                                                    "y",
                                                    "-",
                                                    "d",
                                                    "r",
                                                    "i",
                                                    "v",
                                                    "e",
                                                    "n",
                                                    " ",
                                                    "f",
                                                    "o",
                                                    "r",
                                                    " ">> \o category
          \* "amazon"
          [] platform = <<"a", "m", "a", "z", "o", "n">> ->
                 \* "Universal platform for ages ", ", broad "
                 <<"U", "n", "i", "v", "e", "r", "s", "a", "l", " ", "p", "l", "a", "t", "f", "o",
                   "r", "m", " ", "f", "o", "r", " ", "a", "g", "e", "s", " ">> \o ages \o <<",", " ", "b", "r", "o", "a", "d",
                                                               " ">> \o category
                 \* " reach"
                 \o <<" ", "r", "e", "a", "c", "h">>
          \* "Good match for ages "
          [] OTHER -> <<"G", "o", "o", "d", " ", "m", "a", "t", "c", "h", " ", "f", "o", "r", " ",
                        "a", "g", "e", "s", " ">> \o ages

\* commission rates are kept in hundredths
AmazonRate(category) ==
    \* "Beauty & Skincare", "Health & Wellness"
    IF category \in {<<"B", "e", "a", "u", "t", "y", " ", "&", " ", "S", "k", "i", "n", "c", "a",
                       "r", "e">>, <<"H", "e", "a", "l", "t", "h", " ", "&", " ", "W",
                                              "e", "l",
                                              "l", "n",
                                              "e", "s",
                                              "s">>} THEN 10
    \* "Fashion & Apparel"
    ELSE IF category = <<"F", "a", "s", "h", "i", "o", "n", " ", "&", " ", "A", "p", "p", "a", "r",
                         "e", "l">> THEN 8
    \* "Consumer Electronics"
    ELSE IF category = <<"C", "o", "n", "s", "u", "m", "e", "r", " ", "E", "l", "e", "c", "t", "r",
                         "o", "n", "i", "c", "s">> THEN 4
    \* "Home & Kitchen"
    ELSE IF category = <<"H", "o", "m", "e", " ", "&", " ", "K", "i", "t", "c", "h", "e", "n">> THEN 8
    ELSE 5

ProgramTerms(product_name, category, platform) ==
    \* "tiktok"
    CASE platform = <<"t", "i", "k", "t", "o", "k">> ->
             [commission_rate |-> 12, cookie_duration |-> 14,
              \* "TikTok Shop Creator Program"
              program_name |-> <<"T", "i", "k", "T", "o", "k", " ", "S", "h", "o", "p", " ", "C",
                                 "r", "e", "a", "t", "o", "r", " ",
                                 "P", "r", "o", "g", "r", "a", "m">>,
              \* "https://affiliate.tiktok.com/"
              affiliate_url |-> <<"h", "t", "t", "p", "s", ":", "/", "/", "a", "f", "f", "i", "l",
                                  "i", "a", "t", "e", ".", "t",
                                  "i", "k", "t", "o", "k", ".",
                                  "c", "o", "m", "/">> \o Slug(product_name, "-")]
      \* "instagram"
      [] platform = <<"i", "n", "s", "t", "a", "g", "r", "a", "m">> ->
             [commission_rate |-> 15, cookie_duration |-> 30,
              \* "Instagram Shopping - "
              program_name |-> <<"I", "n", "s", "t", "a", "g", "r", "a", "m", " ", "S", "h", "o",
                                 "p", "p", "i", "n", "g", " ", "-",
                                 " ">> \o product_name,
              \* "https://business.instagram.com/shopping/"
              affiliate_url |-> <<"h", "t", "t", "p", "s", ":", "/", "/", "b", "u", "s", "i", "n",
                                  "e", "s", "s", ".", "i", "n",
                                  "s", "t", "a", "g", "r", "a",
                                  "m", ".", "c", "o", "m", "/",
                                  "s", "h", "o", "p", "p", "i",
                                  "n", "g", "/">>
                                \o Slug(product_name, "-")]
      \* "youtube"
      [] platform = <<"y", "o", "u", "t", "u", "b", "e">> ->
             [commission_rate |-> 10, cookie_duration |-> 30,
              \* "YouTube Shopping Affiliate"
              program_name |-> <<"Y", "o", "u", "T", "u", "b", "e", " ", "S", "h", "o", "p", "p",
                                 "i", "n", "g", " ", "A", "f", "f",
                                 "i", "l", "i", "a", "t", "e">>,
              \* "https://shopping.youtube.com/products/"
              affiliate_url |-> <<"h", "t", "t", "p", "s", ":", "/", "/", "s", "h", "o", "p", "p",
                                  "i", "n", "g", ".", "y", "o",
                                  "u", "t", "u", "b", "e", ".",
                                  "c", "o", "m", "/", "p", "r",
                                  "o", "d", "u", "c", "t", "s",
                                  "/">>
                                \o Slug(product_name, "-")]
      \* "pinterest"
      [] platform = <<"p", "i", "n", "t", "e", "r", "e", "s", "t">> ->
             [commission_rate |-> 13, cookie_duration |-> 30,
              \* "Pinterest Buyable Pins"
              program_name |-> <<"P", "i", "n", "t", "e", "r", "e", "s", "t", " ", "B", "u", "y",
                                 "a", "b", "l", "e", " ", "P", "i",
                                 "n", "s">>,
              \* "https://business.pinterest.com/buyable/"
              affiliate_url |-> <<"h", "t", "t", "p", "s", ":", "/", "/", "b", "u", "s", "i", "n",
                                  "e", "s", "s", ".", "p", "i",
                                  "n", "t", "e", "r", "e", "s",
                                  "t", ".", "c", "o", "m", "/",
                                  "b", "u", "y", "a", "b", "l",
                                  "e", "/">>
                                \o Slug(product_name, "-")]
      \* "amazon"
      [] platform = <<"a", "m", "a", "z", "o", "n">> ->
             [commission_rate |-> AmazonRate(category), cookie_duration |-> 24,
              \* "Amazon Associates"
              program_name |-> <<"A", "m", "a", "z", "o", "n", " ", "A", "s", "s", "o", "c", "i",
                                 "a", "t", "e", "s">>,
              \* "https://affiliate-program.amazon.com"
              affiliate_url |-> <<"h", "t", "t", "p", "s", ":", "/", "/", "a", "f", "f", "i", "l",
                                  "i", "a", "t", "e", "-", "p",
                                  "r", "o", "g", "r", "a", "m",
                                  ".", "a", "m", "a", "z", "o",
                                  "n", ".", "c", "o", "m">>]
      [] OTHER ->
             [commission_rate |-> 5, cookie_duration |-> 30,
              \* "Generic Affiliate"
              program_name |-> <<"G", "e", "n", "e", "r", "i", "c", " ", "A", "f", "f", "i", "l",
                                 "i", "a", "t", "e">>,
              \* "https://example.com"
              affiliate_url |-> <<"h", "t", "t", "p", "s", ":", "/", "/", "e", "x", "a", "m", "p",
                                  "l", "e", ".", "c", "o", "m">>]

\* a faulty variant of the confidence: the two literals exchanged
ConfidenceOfSwapped(audience_match_score) ==
    FAdd(F(15), FMul(audience_match_score, F(85)))

\* confidence_score: 0.85 + (audience_match_score * 0.15)
ConfidenceOf(audience_match_score) == FAdd(F(85), FMul(audience_match_score, F(15)))

create_program_for_platform(product_name, category, platform, platform_enum, audience_match_score, age_range) ==
    LET t == ProgramTerms(product_name, category, platform)
    IN  [program_name          |-> t.program_name,
         platform              |-> platform_enum,
         commission_rate       |-> t.commission_rate,
         cookie_duration       |-> t.cookie_duration,
         affiliate_url         |-> t.affiliate_url,
         is_official           |-> FALSE,
         confidence_score      |-> ConfidenceOf(audience_match_score),
         audience_match_score  |-> audience_match_score,
         recommendation_reason |-> generate_recommendation_reason(platform, age_range, category)]

ScoredPlatforms ==
    <<"TikTokShop", "InstagramShopping", "AmazonAssociates", "YouTubeShopping",
      "PinterestBuyable">>

\* a floor of 0.5
ScoreFloorHalf == F(50)

\* the score floor 0.3 of the discovery loop
ScoreFloor == F(30)

KeepsProgram(score) == FGt(score, ScoreFloor)

\* a faulty variant of the sort: an unstable one that reverses equal keys
SortDescPositionsUnstable(keys) ==
    LET n    == Len(keys)
        rank == collect([i \in 1..n |->
                    1 + Cardinality({j \in 1..n :
                            \/ FGt(keys[j], keys[i])
                            \/ (j > i /\ FCmp(keys[j], keys[i]) = 0)})])
    IN  collect([r \in 1..n |-> CHOOSE i \in 1..n : rank[i] = r])

\* slice::sort_by with the comparator b.partial_cmp(a), on the keys of the elements:
\* the stable descending order as the sequence of source positions.  An element comes
\* after every element with a greater key and after the equal-keyed elements before it.
SortDescPositions(keys) ==
    LET n    == Len(keys)
        rank == collect([i \in 1..n |->
                    1 + Cardinality({j \in 1..n :
                            \/ FGt(keys[j], keys[i])
                            \/ (j < i /\ FCmp(keys[j], keys[i]) = 0)})])
    IN  collect([r \in 1..n |-> CHOOSE i \in 1..n : rank[i] = r])

take(s, n) == SubSeq(s, 1, IF Len(s) < n THEN Len(s) ELSE n)

MaxPrograms == 5

SortPrograms(programs) ==
    LET pos == SortDescPositions(
                   collect([i \in 1..Len(programs) |-> programs[i].audience_match_score]))
    IN  collect([r \in 1..Len(programs) |-> programs[pos[r]]])

\* the five candidates in enumeration order, those above the floor kept
RECURSIVE ScoreLoop(_, _, _, _, _, _)
ScoreLoop(i, product_name, category, trending_score, age_range, price_tier) ==
    IF i > Len(ScoredPlatforms) THEN <<>>
    ELSE LET platform_enum == ScoredPlatforms[i]
             platform_str  == PlatformToString(platform_enum)
             score == calculate_platform_score(platform_str, category, trending_score,
                                               age_range, price_tier)
             rest  == ScoreLoop(i + 1, product_name, category, trending_score,
                                age_range, price_tier)
         IN  IF KeepsProgram(score)
             THEN <<create_program_for_platform(product_name, category, platform_str,
                                                platform_enum, score, age_range)>> \o rest
             ELSE rest

\* overflow_checks: whether the build panics on i32 overflow (a debug build) or
\* wraps (a release build)
mock_ai_discovery_with_platforms(product_name, category, trending_score, target_audience, price_range, overflow_checks) ==
    LET age_range  == extract_age_range(target_audience)
        price_tier == parse_price_tier(price_range)
        overflow   == I32Add(age_range[1], age_range[2]).overflow
    IN  IF overflow /\ overflow_checks
        THEN [status |-> "panic", overflow |-> TRUE, programs |-> <<>>]
        ELSE [status   |-> "ok",
              overflow |-> overflow,
              programs |-> take(SortPrograms(ScoreLoop(1, product_name, category,
                                trending_score, age_range, price_tier)), MaxPrograms)]

\* ------------------------------------------------------------------------
\* analytics_service.rs: ad-type scorer
\* ------------------------------------------------------------------------
AdTypeAll == <<"SocialPost", "Story", "VideoScript", "Carousel", "Email", "Sms">>

HasAny(text, words) == \E w \in words : contains(text, w)

calculate_category_score(category, ad_type) ==
    LET c == to_lowercase(category)
    IN  CASE ad_type = "VideoScript" ->
                 \* "electronics", "tech", "wearable", "gadget"
                 IF HasAny(c, {<<"e", "l", "e", "c", "t", "r", "o", "n", "i", "c", "s">>, <<"t", "e", "c", "h">>, <<"w", "e", "a", "r", "a", "b", "l", "e">>, <<"g", "a", "d", "g", "e",
                                                                          "t">>}) THEN 100
                 \* "fitness", "health"
                 ELSE IF HasAny(c, {<<"f", "i", "t", "n", "e", "s", "s">>, <<"h", "e", "a", "l", "t", "h">>}) THEN 80
                 \* "home", "kitchen"
                 ELSE IF HasAny(c, {<<"h", "o", "m", "e">>, <<"k", "i", "t", "c", "h", "e", "n">>}) THEN 60
                 ELSE 40
          [] ad_type = "Carousel" ->
                 \* "fashion", "apparel", "clothing"
                 IF HasAny(c, {<<"f", "a", "s", "h", "i", "o", "n">>, <<"a", "p", "p", "a", "r", "e", "l">>, <<"c", "l", "o", "t", "h", "i", "n", "g">>}) THEN 100
                 \* "beauty", "skincare", "cosmetic"
                 ELSE IF HasAny(c, {<<"b", "e", "a", "u", "t", "y">>, <<"s", "k", "i", "n", "c", "a", "r", "e">>, <<"c", "o", "s", "m", "e", "t", "i",
                                                                "c">>}) THEN 90
                 \* "home", "decor", "furniture"
                 ELSE IF HasAny(c, {<<"h", "o", "m", "e">>, <<"d", "e", "c", "o", "r">>, <<"f", "u", "r", "n", "i", "t", "u", "r",
                                                           "e">>}) THEN 85
                 \* "jewelry", "accessories"
                 ELSE IF HasAny(c, {<<"j", "e", "w", "e", "l", "r", "y">>, <<"a", "c", "c", "e", "s", "s", "o", "r", "i",
                                                   "e",
                                                   "s">>}) THEN 90
                 ELSE 50
          [] ad_type = "Story" ->
                 \* "beauty", "skincare"
                 IF HasAny(c, {<<"b", "e", "a", "u", "t", "y">>, <<"s", "k", "i", "n", "c", "a", "r", "e">>}) THEN 95
                 \* "fashion", "apparel"
                 ELSE IF HasAny(c, {<<"f", "a", "s", "h", "i", "o", "n">>, <<"a", "p", "p", "a", "r", "e", "l">>}) THEN 90
                 \* "food", "beverage"
                 ELSE IF HasAny(c, {<<"f", "o", "o", "d">>, <<"b", "e", "v", "e", "r", "a", "g", "e">>}) THEN 85
                 \* "fitness", "wellness"
                 ELSE IF HasAny(c, {<<"f", "i", "t", "n", "e", "s", "s">>, <<"w", "e", "l", "l", "n", "e", "s", "s">>}) THEN 80
                 ELSE 50
          [] ad_type = "SocialPost" ->
                 \* "trending", "viral"
                 IF HasAny(c, {<<"t", "r", "e", "n", "d", "i", "n", "g">>, <<"v", "i", "r", "a", "l">>}) THEN 95
                 \* "gadget", "tech"
                 ELSE IF HasAny(c, {<<"g", "a", "d", "g", "e", "t">>, <<"t", "e", "c", "h">>}) THEN 70
                 ELSE 60
          [] ad_type = "Email" ->
                 \* "health", "wellness", "supplement"
                 IF HasAny(c, {<<"h", "e", "a", "l", "t", "h">>, <<"w", "e", "l", "l", "n", "e", "s", "s">>, <<"s", "u", "p", "p", "l", "e", "m", "e",
                                                           "n",
                                                           "t">>}) THEN 90
                 \* "finance", "insurance"
                 ELSE IF HasAny(c, {<<"f", "i", "n", "a", "n", "c", "e">>, <<"i", "n", "s", "u", "r", "a", "n", "c", "e">>}) THEN 95
                 \* "electronics", "appliance"
                 ELSE IF HasAny(c, {<<"e", "l", "e", "c", "t", "r", "o", "n", "i", "c", "s">>, <<"a", "p", "p", "l", "i", "a", "n", "c", "e">>}) THEN 70
                 ELSE 50
          [] ad_type = "Sms" ->
                 \* "food", "restaurant"
                 IF HasAny(c, {<<"f", "o", "o", "d">>, <<"r", "e", "s", "t", "a", "u", "r", "a", "n", "t">>}) THEN 90
                 \* "deal", "flash"
                 ELSE IF HasAny(c, {<<"d", "e", "a", "l">>, <<"f", "l", "a", "s", "h">>}) THEN 95
                 \* "local", "service"
                 ELSE IF HasAny(c, {<<"l", "o", "c", "a", "l">>, <<"s", "e", "r", "v", "i", "c", "e">>}) THEN 80
                 ELSE 30

AudienceBandScore(ad_type, is_gen_z, is_millennial, is_gen_x, is_boomer) ==
    CASE ad_type = "Story" ->
             IF is_gen_z THEN 100 ELSE IF is_millennial THEN 75
             ELSE IF is_gen_x THEN 40 ELSE 20
      [] ad_type = "SocialPost" ->
             IF is_gen_z THEN 90 ELSE IF is_millennial THEN 85
             ELSE IF is_gen_x THEN 60 ELSE 40
      [] ad_type = "VideoScript" ->
             IF is_millennial THEN 90 ELSE IF is_gen_x THEN 85
             ELSE IF is_gen_z THEN 70 ELSE 60
      [] ad_type = "Carousel" ->
             IF is_millennial THEN 90 ELSE IF is_gen_z THEN 80
             ELSE IF is_gen_x THEN 70 ELSE 50
      [] ad_type = "Email" ->
             IF is_boomer THEN 100 ELSE IF is_gen_x THEN 90
             ELSE IF is_millennial THEN 70 ELSE 40
      [] ad_type = "Sms" ->
             IF is_gen_x THEN 80 ELSE IF is_boomer THEN 75
             ELSE IF is_millennial THEN 60 ELSE 50

calculate_audience_score(target_audience, ad_type) ==
    IF ~is_some(target_audience) THEN 50
    ELSE LET audience_lower == to_lowercase(unwrap_or(target_audience, <<>>))
             age_range == analytics_extract_age_range(audience_lower)
             avg == I32Div(age_range[1] + age_range[2], 2)
             \* "gen z", "genz", "zoomer"
             is_gen_z == \/ HasAny(audience_lower, {<<"g", "e", "n", " ", "z">>, <<"g", "e", "n", "z">>, <<"z", "o", "o", "m", "e",
                                                                           "r">>})
                         \/ (avg >= 18 /\ avg <= 25)
             \* "millennial"
             is_millennial == \/ contains(audience_lower, <<"m", "i", "l", "l", "e", "n", "n", "i",
                                                            "a",
                                                            "l">>)
                              \/ (avg >= 26 /\ avg <= 40)
             \* "gen x", "genx"
             is_gen_x == \/ HasAny(audience_lower, {<<"g", "e", "n", " ", "x">>, <<"g", "e", "n", "x">>})
                         \/ (avg >= 41 /\ avg <= 55)
             \* "boomer", "senior"
             is_boomer == \/ HasAny(audience_lower, {<<"b", "o", "o", "m", "e", "r">>, <<"s", "e", "n", "i", "o", "r">>})
                          \/ avg > 55
         IN  AudienceBandScore(ad_type, is_gen_z, is_millennial, is_gen_x, is_boomer)

DefaultTrending == 50

\* a faulty variant: the top band of the social post starts at 90, not at 80
calculate_trending_score_late(trending_score, ad_type) ==
    LET score == unwrap_or(trending_score, DefaultTrending)
    IN  CASE ad_type = "SocialPost" ->
                 IF score >= 90 THEN 100 ELSE IF score >= 60 THEN 80
                 ELSE IF score >= 40 THEN 60 ELSE 40
          [] ad_type = "Story" ->
                 IF score >= 75 THEN 95 ELSE IF score >= 50 THEN 75 ELSE 55
          [] ad_type = "VideoScript" ->
                 IF score >= 60 THEN 80 ELSE 70
          [] ad_type = "Carousel" ->
                 IF score >= 70 THEN 85 ELSE IF score >= 50 THEN 70 ELSE 60
          [] ad_type = "Email" ->
                 IF score < 50 THEN 85 ELSE IF score < 70 THEN 75 ELSE 60
          [] ad_type = "Sms" -> 60

calculate_trending_score(trending_score, ad_type) ==
    LET score == unwrap_or(trending_score, DefaultTrending)
    IN  CASE ad_type = "SocialPost" ->
                 IF score >= 80 THEN 100 ELSE IF score >= 60 THEN 80
                 ELSE IF score >= 40 THEN 60 ELSE 40
          [] ad_type = "Story" ->
                 IF score >= 75 THEN 95 ELSE IF score >= 50 THEN 75 ELSE 55
          [] ad_type = "VideoScript" ->
                 IF score >= 60 THEN 80 ELSE 70
          [] ad_type = "Carousel" ->
                 IF score >= 70 THEN 85 ELSE IF score >= 50 THEN 70 ELSE 60
          [] ad_type = "Email" ->
                 IF score < 50 THEN 85 ELSE IF score < 70 THEN 75 ELSE 60
          [] ad_type = "Sms" -> 60

\* p.ids is the set of platform-identifier fields of the product that are Some
analytics_calculate_platform_score(p, ad_type) ==
    LET has_tiktok    == "tiktok_product_id" \in p.ids
        has_instagram == "instagram_product_id" \in p.ids
        has_youtube   == "youtube_video_id" \in p.ids
        has_pinterest == "pinterest_pin_id" \in p.ids
        has_amazon    == "amazon_asin" \in p.ids
        platform_count == Cardinality(p.ids)
    IN  CASE ad_type = "Story" ->
                 IF has_tiktok THEN 95 ELSE IF has_instagram THEN 85 ELSE 50
          [] ad_type = "Carousel" ->
                 IF has_instagram /\ has_pinterest THEN 100
                 ELSE IF has_instagram THEN 90
                 ELSE IF has_pinterest THEN 85
                 ELSE 50
          [] ad_type = "VideoScript" ->
                 IF has_youtube THEN 95 ELSE IF has_tiktok THEN 70 ELSE 50
          [] ad_type = "SocialPost" ->
                 IF platform_count >= 3 THEN 90
                 ELSE IF platform_count >= 1 THEN 75
                 ELSE 60
          [] ad_type = "Email" -> IF has_amazon THEN 80 ELSE 65
          [] ad_type = "Sms" -> 60

\* a faulty variant: the category and audience weights exchanged
calculate_total_swapped(category_score, audience_score, trending_score, platform_score) ==
    FAdd(FAdd(FAdd(Weighted(category_score, 35), Weighted(audience_score, 30)),
              Weighted(trending_score, 20)),
         Weighted(platform_score, 15))

\* Weights: Category 30%, Audience 35%, Trending 20%, Platform 15%
calculate_total(category_score, audience_score, trending_score, platform_score) ==
    FAdd(FAdd(FAdd(Weighted(category_score, 30), Weighted(audience_score, 35)),
              Weighted(trending_score, 20)),
         Weighted(platform_score, 15))

AdTypeScore(p, ad_type) ==
    LET category_score == calculate_category_score(p.category, ad_type)
        audience_score == calculate_audience_score(p.target_audience, ad_type)
        trending_score == calculate_trending_score(p.trending_score, ad_type)
        platform_score == analytics_calculate_platform_score(p, ad_type)
    IN  [ad_type        |-> ad_type,
         category_score |-> category_score,
         audience_score |-> audience_score,
         trending_score |-> trending_score,
         platform_score |-> platform_score,
         total_score    |-> calculate_total(category_score, audience_score,
                                            trending_score, platform_score)]

\* a faulty variant of the sort: the comparator a.partial_cmp(b), ascending
SortScoresAscending(scores) ==
    LET n   == Len(scores)
        pos == SortDescPositions(collect([i \in 1..n |-> scores[i].total_score]))
    IN  collect([r \in 1..n |-> scores[pos[n + 1 - r]]])

SortScores(scores) ==
    LET pos == SortDescPositions(collect([i \in 1..Len(scores) |-> scores[i].total_score]))
    IN  collect([r \in 1..Len(scores) |-> scores[pos[r]]])

FOne == F(100)

\* f64::clamp(0.0, 1.0) of a non-negative value
clamp01(x) == IF FGt(x, FOne) THEN FOne ELSE x

\* a faulty variant of the slice: scores[0..min(3, len)], which starts at the winner
AlternativesFromBest(scores) ==
    LET hi == IF Len(scores) < 3 THEN Len(scores) ELSE 3
    IN  collect([i \in 1..hi |-> scores[i].ad_type])

\* scores[1..min(4, len)] of the source: the second to the fourth entry
Alternatives(scores) ==
    LET hi == IF Len(scores) < 4 THEN Len(scores) ELSE 4
    IN  collect([i \in 1..(hi - 1) |-> scores[i + 1].ad_type])

\* AdType::display_name
display_name(ad_type) ==
    \* "Social Media Post"
    CASE ad_type = "SocialPost"  -> <<"S", "o", "c", "i", "a", "l", " ", "M", "e", "d", "i", "a",
                                      " ", "P", "o", "s", "t">>
      \* "Story"
      [] ad_type = "Story"       -> <<"S", "t", "o", "r", "y">>
      \* "Video Script"
      [] ad_type = "VideoScript" -> <<"V", "i", "d", "e", "o", " ", "S", "c", "r", "i", "p", "t">>
      \* "Carousel"
      [] ad_type = "Carousel"    -> <<"C", "a", "r", "o", "u", "s", "e", "l">>
      \* "Email"
      [] ad_type = "Email"       -> <<"E", "m", "a", "i", "l">>
      \* "SMS"
      [] ad_type = "Sms"         -> <<"S", "M", "S">>

\* the f64 100.0
FHundred == FLit(100, 1)

\* format!("{:.0}", x) of a non-negative x below 2^14: the nearest integer of
\* the exact value, a tie going to the even one
FormatNoDecimals(x) ==
    \* "0"
    IF IsZero(x) \/ 0 - x.e > MantBits + 1 THEN <<"0">>
    ELSE NatToText(Head(RoundShift(x.m, 0 - x.e, MantLimbs)))

\* a faulty variant: only the viral clause, the trust clause is never given
TrendingReasonViralOnly(trending, trending_score) ==
    IF trending = None THEN <<>>
    ELSE IF unwrap_or(trending, 0) >= 80 /\ trending_score >= 90
    \* "High trending score suggests viral potential"
    THEN <<<<"H", "i", "g", "h", " ", "t", "r", "e", "n", "d", "i", "n", "g", " ", "s", "c", "o",
             "r", "e", " ", "s", "u", "g", "g", "e", "s", "t", "s", " ", "v", "i", "r",
             "a", "l", " ", "p", "o", "t", "e", "n", "t", "i", "a", "l">>>>
    ELSE <<>>

\* the trending clause of generate_reasoning, as a list of none or one reason
TrendingReason(trending, trending_score) ==
    IF trending = None THEN <<>>
    ELSE IF unwrap_or(trending, 0) >= 80 /\ trending_score >= 90
    \* "High trending score suggests viral potential"
    THEN <<<<"H", "i", "g", "h", " ", "t", "r", "e", "n", "d", "i", "n", "g", " ", "s", "c", "o",
             "r", "e", " ", "s", "u", "g", "g", "e", "s", "t", "s", " ", "v", "i", "r",
             "a", "l", " ", "p", "o", "t", "e", "n", "t", "i", "a", "l">>>>
    ELSE IF unwrap_or(trending, 0) < 50 /\ trending_score >= 70
    \* "This format builds trust for products needing education"
    THEN <<<<"T", "h", "i", "s", " ", "f", "o", "r", "m", "a", "t", " ", "b", "u", "i", "l", "d",
             "s", " ", "t", "r", "u", "s", "t", " ", "f", "o", "r", " ", "p", "r", "o",
             "d", "u", "c", "t", "s", " ", "n", "e", "e", "d", "i", "n", "g", " ", "e",
             "d", "u", "c", "a", "t", "i", "o", "n">>>>
    ELSE <<>>

\* the names of the platforms the product has an id for, in the order of the
\* source; the Amazon ASIN is not among them
ReasonPlatforms(ids) ==
    \* "TikTok"
    (IF "tiktok_product_id" \in ids THEN <<<<"T", "i", "k", "T", "o", "k">>>> ELSE <<>>)
    \* "Instagram"
    \o (IF "instagram_product_id" \in ids THEN <<<<"I", "n", "s", "t", "a", "g", "r", "a", "m">>>> ELSE <<>>)
    \* "YouTube"
    \o (IF "youtube_video_id" \in ids THEN <<<<"Y", "o", "u", "T", "u", "b", "e">>>> ELSE <<>>)
    \* "Pinterest"
    \o (IF "pinterest_pin_id" \in ids THEN <<<<"P", "i", "n", "t", "e", "r", "e", "s", "t">>>> ELSE <<>>)

\* parts.join(sep)
RECURSIVE join(_, _)
join(parts, sep) ==
    IF parts = <<>> THEN <<>>
    ELSE IF Len(parts) = 1 THEN Head(parts)
    ELSE Head(parts) \o sep \o join(Tail(parts), sep)

\* the reasons pushed by generate_reasoning, in order
Reasons(p, score) ==
    (IF score.category_score >= 80
     \* "The '", "' category aligns strongly with "
     THEN <<<<"T", "h", "e", " ", "'">> \o p.category \o <<"'", " ", "c", "a", "t", "e", "g", "o", "r", "y", " ",
                                         "a", "l", "i", "g",
                                         "n", "s", " ", "s",
                                         "t", "r", "o", "n",
                                         "g", "l", "y", " ",
                                         "w", "i", "t", "h",
                                         " ">>
            \* " format"
            \o display_name(score.ad_type) \o <<" ", "f", "o", "r", "m", "a", "t">>>>
     ELSE <<>>)
    \o (IF is_some(p.target_audience) /\ score.audience_score >= 80
        \* "Target audience '"
        THEN <<<<"T", "a", "r", "g", "e", "t", " ", "a", "u", "d", "i", "e", "n", "c", "e", " ",
                 "'">> \o unwrap_or(p.target_audience, <<>>)
               \* "' responds well to this format"
               \o <<"'", " ", "r", "e", "s", "p", "o", "n", "d", "s", " ", "w", "e", "l", "l", " ",
                    "t", "o", " ", "t", "h", "i", "s", " ", "f", "o", "r", "m",
                    "a", "t">>>>
        ELSE <<>>)
    \o TrendingReason(p.trending_score, score.trending_score)
    \o (IF score.platform_score >= 85 /\ ReasonPlatforms(p.ids) # <<>>
        \* "Available on ", ", "
        THEN <<<<"A", "v", "a", "i", "l", "a", "b", "l", "e", " ", "o", "n", " ">> \o join(ReasonPlatforms(p.ids), <<",", " ">>)
               \* " which natively supports this format"
               \o <<" ", "w", "h", "i", "c", "h", " ", "n", "a", "t", "i", "v", "e", "l", "y", " ",
                    "s", "u", "p", "p", "o", "r", "t", "s", " ", "t", "h", "i",
                    "s", " ", "f", "o", "r", "m", "a", "t">>>>
        ELSE <<>>)

generate_reasoning(p, score) ==
    IF Reasons(p, score) = <<>>
    \* " selected as the balanced choice for '"
    THEN display_name(score.ad_type) \o <<" ", "s", "e", "l", "e", "c", "t", "e", "d", " ", "a",
                                          "s", " ", "t",
                                          "h", "e", " ",
                                          "b", "a", "l",
                                          "a", "n", "c",
                                          "e", "d", " ",
                                          "c", "h", "o",
                                          "i", "c", "e",
                                          " ", "f", "o",
                                          "r", " ", "'">> \o p.name
         \* "' with confidence "
         \o <<"'", " ", "w", "i", "t", "h", " ", "c", "o", "n", "f", "i", "d", "e", "n", "c", "e",
              " ">> \o FormatNoDecimals(FMul(score.total_score, FHundred))
         \* "%"
         \o <<"%">>
    \* ". ", "."
    ELSE join(Reasons(p, score), <<".", " ">>) \o <<".">>

\* the scores of the six ad types, best first
RankedScores(p) ==
    SortScores(collect([i \in 1..Len(AdTypeAll) |-> AdTypeScore(p, AdTypeAll[i])]))

MarketAnalysis(p, best, scores) ==
    [recommended_ad_type |-> best.ad_type,
     confidence_score    |-> clamp01(best.total_score),
     reasoning           |-> generate_reasoning(p, best),
     alternative_types   |-> Alternatives(scores)]

analyze_market_for_product(p) ==
    CHOOSE analysis \in {MarketAnalysis(p, Head(scores), scores) : scores \in {RankedScores(p)}} :
        TRUE

\* ------------------------------------------------------------------------
\* ai_affiliate.rs: tracking-URL builder
\* ------------------------------------------------------------------------

\* "afl_" followed by the epoch milliseconds of the call
\* "afl_"
generate_tracking_id(clock) == <<"a", "f", "l", "_">> \o NatToText(clock)

\* a faulty variant of the builder: without the amazon case
generate_tracking_url_generic(platform, program_name, product_name, destination_url, clock) ==
    LET tracking_id == generate_tracking_id(clock)
        campaign    == Slug(product_name, "_")
    \* "?ref=", "&utm_campaign="
    IN  destination_url \o <<"?", "r", "e", "f", "=">> \o tracking_id \o <<"&", "u", "t", "m", "_", "c", "a", "m",
                                                         "p",
                                                         "a",
                                                         "i",
                                                         "g",
                                                         "n",
                                                         "=">> \o campaign

generate_tracking_url(platform, program_name, product_name, destination_url, clock) ==
    LET tracking_id == generate_tracking_id(clock)
        campaign    == Slug(product_name, "_")
    \* "tiktok"
    IN  CASE platform = <<"t", "i", "k", "t", "o", "k">> ->
                 \* "?utm_source=tiktok&utm_medium=affiliate&utm_campaign="
                 destination_url \o <<"?", "u", "t", "m", "_", "s", "o", "u", "r", "c", "e", "=",
                                      "t", "i", "k", "t", "o",
                                      "k", "&", "u", "t", "m",
                                      "_", "m", "e", "d", "i",
                                      "u", "m", "=", "a", "f",
                                      "f", "i", "l", "i", "a",
                                      "t", "e", "&", "u", "t",
                                      "m", "_", "c", "a", "m",
                                      "p", "a", "i", "g", "n",
                                      "=">>
                 \* "&ref="
                 \o campaign \o <<"&", "r", "e", "f", "=">> \o tracking_id
          \* "instagram"
          [] platform = <<"i", "n", "s", "t", "a", "g", "r", "a", "m">> ->
                 \* "?utm_source=instagram&utm_medium=shopping&utm_campaign="
                 destination_url \o <<"?", "u", "t", "m", "_", "s", "o", "u", "r", "c", "e", "=",
                                      "i", "n", "s", "t", "a",
                                      "g", "r", "a", "m", "&",
                                      "u", "t", "m", "_", "m",
                                      "e", "d", "i", "u", "m",
                                      "=", "s", "h", "o", "p",
                                      "p", "i", "n", "g", "&",
                                      "u", "t", "m", "_", "c",
                                      "a", "m", "p", "a", "i",
                                      "g", "n", "=">>
                 \* "&ref="
                 \o campaign \o <<"&", "r", "e", "f", "=">> \o tracking_id
          \* "amazon"
          [] platform = <<"a", "m", "a", "z", "o", "n">> ->
                 \* "https://www.amazon.com/dp/XXXXX?tag=affilai-20&linkCode=as2&ref="
                 <<"h", "t", "t", "p", "s", ":", "/", "/", "w", "w", "w", ".", "a", "m", "a", "z",
                   "o", "n", ".", "c", "o", "m", "/", "d", "p", "/", "X", "X",
                   "X", "X", "X", "?", "t", "a", "g", "=", "a", "f", "f", "i",
                   "l", "a", "i", "-", "2", "0", "&", "l", "i", "n", "k", "C",
                   "o", "d", "e", "=", "a", "s", "2", "&", "r", "e", "f", "=">>
                 \o tracking_id
          \* "youtube"
          [] platform = <<"y", "o", "u", "t", "u", "b", "e">> ->
                 \* "?utm_source=youtube&utm_medium=affiliate&utm_campaign="
                 destination_url \o <<"?", "u", "t", "m", "_", "s", "o", "u", "r", "c", "e", "=",
                                      "y", "o", "u", "t", "u",
                                      "b", "e", "&", "u", "t",
                                      "m", "_", "m", "e", "d",
                                      "i", "u", "m", "=", "a",
                                      "f", "f", "i", "l", "i",
                                      "a", "t", "e", "&", "u",
                                      "t", "m", "_", "c", "a",
                                      "m", "p", "a", "i", "g",
                                      "n", "=">>
                 \* "&ref="
                 \o campaign \o <<"&", "r", "e", "f", "=">> \o tracking_id
          \* "pinterest"
          [] platform = <<"p", "i", "n", "t", "e", "r", "e", "s", "t">> ->
                 \* "?utm_source=pinterest&utm_medium=pin&utm_campaign="
                 destination_url \o <<"?", "u", "t", "m", "_", "s", "o", "u", "r", "c", "e", "=",
                                      "p", "i", "n", "t", "e",
                                      "r", "e", "s", "t", "&",
                                      "u", "t", "m", "_", "m",
                                      "e", "d", "i", "u", "m",
                                      "=", "p", "i", "n", "&",
                                      "u", "t", "m", "_", "c",
                                      "a", "m", "p", "a", "i",
                                      "g", "n", "=">>
                 \* "&ref="
                 \o campaign \o <<"&", "r", "e", "f", "=">> \o tracking_id
          [] OTHER ->
                 \* "?ref=", "&utm_campaign="
                 destination_url \o <<"?", "r", "e", "f", "=">> \o tracking_id \o <<"&", "u", "t", "m", "_", "c",
                                                                  "a",
                                                                  "m",
                                                                  "p",
                                                                  "a",
                                                                  "i",
                                                                  "g",
                                                                  "n",
                                                                  "=">> \o campaign

\* ------------------------------------------------------------------------
\* Inputs
\* ------------------------------------------------------------------------
MaxPriceDigits == 3
MaxClock == 4

PlatformIdFields ==
    {"amazon_asin", "tiktok_product_id", "instagram_product_id", "youtube_video_id",
     "pinterest_pin_id"}

Product(name, category, price_range, target_audience, trending_score, ids) ==
    [name |-> name, category |-> category, price_range |-> price_range,
     target_audience |-> target_audience, trending_score |-> trending_score, ids |-> ids]

\* "Test Product"
TestName == <<"T", "e", "s", "t", " ", "P", "r", "o", "d", "u", "c", "t">>

\* digit runs of up to MaxPriceDigits digits around the tier thresholds 50, 150, 500
RECURSIVE DigitRuns(_)
DigitRuns(n) ==
    IF n = 0 THEN {<<>>}
    ELSE LET shorter == DigitRuns(n - 1)
         IN  shorter \cup {r \o <<d>> : r \in shorter, d \in {"0", "1", "4", "5"}}

PriceTexts ==
    \* "$"
    {<<"$">> \o r : r \in DigitRuns(MaxPriceDigits)}
    \* "-$99"
    \cup {r \o <<"-", "$", "9", "9">> : r \in DigitRuns(MaxPriceDigits)}
    \* "$30-$40", "$300-400", "$50-$100", "$49.99", "$149", "$499"
    \cup {<<"$", "3", "0", "-", "$", "4", "0">>, <<"$", "3", "0", "0", "-", "4", "0", "0">>, <<"$", "5", "0", "-", "$", "1", "0", "0">>, <<"$", "4", "9", ".", "9", "9">>, <<"$", "1", "4", "9">>, <<"$", "4", "9", "9">>,
          \* "$600", "from $ 20", "USD 1200", "free", "$$$", "under $ 5"
          <<"$", "6", "0", "0">>, <<"f", "r", "o", "m", " ", "$", " ", "2", "0">>, <<"U", "S", "D", " ", "1", "2", "0", "0">>, <<"f", "r", "e", "e">>, <<"$", "$", "$">>, <<"u", "n", "d", "e", "r", " ",
                                                                      "$",
                                                                      " ",
                                                                      "5">>,
          \* "$2147483647", "$2147483648", "$3000000000", "99999999999"
          <<"$", "2", "1", "4", "7", "4", "8", "3", "6", "4", "7">>, <<"$", "2", "1", "4", "7", "4", "8", "3", "6", "4", "8">>, <<"$", "3", "0", "0", "0", "0", "0", "0", "0", "0",
                                              "0">>, <<"9", "9", "9", "9", "9", "9", "9",
                                                               "9",
                                                               "9",
                                                               "9",
                                                               "9">>,
          \* "$00000000000049"
          <<"$", "0", "0", "0", "0", "0", "0", "0", "0", "0", "0", "0", "0", "4", "9">>}

AudienceTexts ==
    \* "", "Age 18-24", "Gen Z shoppers", "Age 30-45", "Gen Z, Age 18-24"
    {<<>>, <<"A", "g", "e", " ", "1", "8", "-", "2", "4">>, <<"G", "e", "n", " ", "Z", " ", "s", "h", "o", "p", "p", "e", "r", "s">>, <<"A", "g", "e", " ", "3", "0", "-", "4", "5">>, <<"G", "e", "n", " ", "Z", ",", " ",
                                                               "A",
                                                               "g",
                                                               "e",
                                                               " ",
                                                               "1",
                                                               "8",
                                                               "-",
                                                               "2",
                                                               "4">>,
     \* "Age 55-70, Boomers", "Age 25-45", "Age 25-35", "Age 25-40", "Age 18-30"
     <<"A", "g", "e", " ", "5", "5", "-", "7", "0", ",", " ", "B", "o", "o", "m", "e", "r", "s">>, <<"A", "g", "e", " ", "2", "5", "-", "4", "5">>, <<"A", "g", "e", " ", "2", "5", "-", "3", "5">>, <<"A", "g", "e", " ", "2", "5", "-",
                                                             "4",
                                                             "0">>, <<"A", "g", "e", " ",
                                                                            "1",
                                                                            "8",
                                                                            "-",
                                                                            "3",
                                                                            "0">>,
     \* "Age 30-50", "Ages 40-50, female", "AGES  13-  17", "18-35", "zoomer"
     <<"A", "g", "e", " ", "3", "0", "-", "5", "0">>, <<"A", "g", "e", "s", " ", "4", "0", "-", "5", "0", ",", " ", "f", "e", "m",
                      "a", "l", "e">>, <<"A", "G", "E", "S", " ", " ", "1", "3", "-", " ",
                                              " ", "1",
                                              "7">>, <<"1", "8", "-", "3", "5">>, <<"z", "o", "o", "m",
                                                                            "e",
                                                                            "r">>,
     \* "Zoomers", "genz creators", "Millennial, Age 18-24", "millennials"
     <<"Z", "o", "o", "m", "e", "r", "s">>, <<"g", "e", "n", "z", " ", "c", "r", "e", "a", "t", "o", "r", "s">>, <<"M", "i", "l", "l", "e", "n", "n", "i", "a", "l", ",", " ",
                                       "A", "g", "e", " ",
                                       "1", "8", "-", "2",
                                       "4">>, <<"m", "i", "l", "l", "e", "n",
                                                                  "n",
                                                                  "i",
                                                                  "a",
                                                                  "l",
                                                                  "s">>,
     \* "Gen X", "genx parents", "Seniors", "boomer", "teenage 13-19"
     <<"G", "e", "n", " ", "X">>, <<"g", "e", "n", "x", " ", "p", "a", "r", "e", "n", "t", "s">>, <<"S", "e", "n", "i", "o", "r", "s">>, <<"b", "o", "o", "m", "e", "r">>, <<"t", "e", "e", "n", "a", "g", "e",
                                                             " ",
                                                             "1",
                                                             "3",
                                                             "-",
                                                             "1",
                                                             "9">>,
     \* "Age 25{EN_DASH}45", "Age 25{A_CIRC}{EURO}{LDQUO}45", "Age 7-9", "Age 118-245"
     <<"A", "g", "e", " ", "2", "5", "EN_DASH", "4", "5">>, <<"A", "g", "e", " ", "2", "5", "A_CIRC", "EURO", "LDQUO", "4", "5">>, <<"A", "g", "e", " ", "7", "-", "9">>, <<"A", "g", "e", " ",
                                                                              "1",
                                                                              "1",
                                                                              "8",
                                                                              "-",
                                                                              "2",
                                                                              "4",
                                                                              "5">>,
     \* "Age 2000000000-2000000000", "Age 2147483647-1", "Age 9999999999-20"
     <<"A", "g", "e", " ", "2", "0", "0", "0", "0", "0", "0", "0", "0", "0", "-", "2", "0", "0",
       "0", "0", "0", "0", "0", "0", "0">>, <<"A", "g", "e", " ", "2", "1", "4", "7", "4", "8", "3", "6",
                                      "4", "7", "-", "1">>, <<"A", "g", "e", " ", "9", "9", "9", "9",
                                                            "9",
                                                            "9",
                                                            "9",
                                                            "9",
                                                            "9",
                                                            "9",
                                                            "-",
                                                            "2",
                                                            "0">>,
     \* "Age 20-9999999999", "Age 45-60", "Age 40-40", "Page 3-5", "age: 18-24"
     <<"A", "g", "e", " ", "2", "0", "-", "9", "9", "9", "9", "9", "9", "9", "9", "9", "9">>, <<"A", "g", "e", " ", "4", "5", "-", "6", "0">>, <<"A", "g", "e", " ", "4", "0", "-", "4", "0">>, <<"P", "a", "g", "e", " ", "3", "-", "5">>, <<"a", "g", "e", ":", " ",
                                                                          "1",
                                                                          "8",
                                                                          "-",
                                                                          "2",
                                                                          "4">>,
     \* "Adults 35-54 and seniors"
     <<"A", "d", "u", "l", "t", "s", " ", "3", "5", "-", "5", "4", " ", "a", "n", "d", " ", "s",
       "e", "n", "i", "o", "r", "s">>}

ParseProducts ==
    \* "Home & Kitchen"
    {Product(TestName, <<"H", "o", "m", "e", " ", "&", " ", "K", "i", "t", "c", "h", "e", "n">>, Some(t), None, None, {}) : t \in PriceTexts}
    \* "Home & Kitchen"
    \cup {Product(TestName, <<"H", "o", "m", "e", " ", "&", " ", "K", "i", "t", "c", "h", "e", "n">>, None, Some(t), None, {}) : t \in AudienceTexts}

NoCall == [op |-> "none", val |-> <<>>]

\* no command is in flight
NoCalls == <<>>

\* affilai.db without a row; foreign_keys is whether the SQLite build enforces
\* foreign keys on a new connection
NoRows ==
    [foreign_keys |-> FALSE, products |-> <<>>, ad_copies |-> <<>>, affiliate_links |-> <<>>]

\* ------------------------------------------------------------------------
\* The attribute parsers applied to a product's texts
\* ------------------------------------------------------------------------
PriceText(p) == unwrap_or(p.price_range, <<>>)

AudienceText(p) == unwrap_or(p.target_audience, <<>>)

ParsePriceTier ==
    /\ ret.op = "none"
    /\ ret' = [op |-> "parse_price_tier", val |-> parse_price_tier(PriceText(product))]
    /\ UNCHANGED <<product, now, db, calls>>

ExtractAgeRange ==
    /\ ret.op = "none"
    /\ ret' = [op |-> "extract_age_range", val |-> extract_age_range(AudienceText(product))]
    /\ UNCHANGED <<product, now, db, calls>>

\* the ad-type scorer reads the range from the lower-cased audience text
AnalyticsExtractAgeRange ==
    /\ ret.op = "none"
    /\ ret' = [op  |-> "analytics_extract_age_range",
               val |-> analytics_extract_age_range(to_lowercase(AudienceText(product)))]
    /\ UNCHANGED <<product, now, db, calls>>

InitParse == product \in ParseProducts /\ ret = NoCall /\ now = 0 /\ db = NoRows /\ calls = NoCalls

NextParse == ParsePriceTier \/ ExtractAgeRange \/ AnalyticsExtractAgeRange

SpecParse == InitParse /\ [][NextParse]_vars


\* ------------------------------------------------------------------------
\* commands/affiliate_links.rs: platform discovery for a stored product
\* ------------------------------------------------------------------------
DiscoverCategories ==
    \* "Beauty & Skincare", "Consumer Electronics", "Home & Kitchen", "Pet Supplies"
    {<<"B", "e", "a", "u", "t", "y", " ", "&", " ", "S", "k", "i", "n", "c", "a", "r", "e">>, <<"C", "o", "n", "s", "u", "m", "e", "r", " ", "E", "l", "e", "c", "t",
                              "r", "o", "n", "i", "c", "s">>, <<"H", "o", "m", "e", " ", "&", " ", "K",
                                                        "i",
                                                        "t",
                                                        "c",
                                                        "h",
                                                        "e",
                                                        "n">>, <<"P", "e", "t", " ",
                                                                            "S",
                                                                            "u",
                                                                            "p",
                                                                            "p",
                                                                            "l",
                                                                            "i",
                                                                            "e",
                                                                            "s">>,
     \* "Health & Wellness"
     <<"H", "e", "a", "l", "t", "h", " ", "&", " ", "W", "e", "l", "l", "n", "e", "s", "s">>}

DiscoverTrending == {None, Some(60), Some(65), Some(70), Some(75), Some(85)}

DiscoverAudiences ==
    \* "Age 18-24", "Age 30-45", "Ages 40-50, female"
    {None, Some(<<"A", "g", "e", " ", "1", "8", "-", "2", "4">>), Some(<<"A", "g", "e", " ", "3", "0", "-", "4", "5">>), Some(<<"A", "g", "e", "s", " ", "4", "0", "-",
                                                            "5",
                                                            "0",
                                                            ",",
                                                            " ",
                                                            "f",
                                                            "e",
                                                            "m",
                                                            "a",
                                                            "l",
                                                            "e">>),
     \* "Age 55-70, Boomers", "Age 7-9"
     Some(<<"A", "g", "e", " ", "5", "5", "-", "7", "0", ",", " ", "B", "o", "o", "m", "e", "r",
            "s">>), Some(<<"A", "g", "e", " ", "7", "-", "9">>),
     \* "Age 2000000000-2000000000", "Age 2147483647-1"
     Some(<<"A", "g", "e", " ", "2", "0", "0", "0", "0", "0", "0", "0", "0", "0", "-", "2", "0",
            "0", "0", "0", "0", "0", "0", "0", "0">>), Some(<<"A", "g", "e", " ", "2", "1", "4", "7", "4", "8",
                                                 "3",
                                                 "6",
                                                 "4",
                                                 "7",
                                                 "-",
                                                 "1">>)}

\* "$30-$40", "$300-400", "$600"
DiscoverPrices == {None, Some(<<"$", "3", "0", "-", "$", "4", "0">>), Some(<<"$", "3", "0", "0", "-", "4", "0", "0">>), Some(<<"$", "6", "0", "0">>)}

DiscoverProducts ==
    {Product(TestName, c, p, a, t, {}) :
        c \in DiscoverCategories, p \in DiscoverPrices, a \in DiscoverAudiences,
        t \in DiscoverTrending}

\* the arguments discover_affiliate_programs passes on: absent texts become "",
\* an absent trending score becomes 50
discover_affiliate_programs(p, overflow_checks) ==
    mock_ai_discovery_with_platforms(p.name, p.category, unwrap_or(p.trending_score, 50),
                                     AudienceText(p), PriceText(p), overflow_checks)

DiscoverPlatforms ==
    /\ ret.op = "none"
    /\ \E overflow_checks \in BOOLEAN :
          ret' = [op  |-> "discover_platforms",
                  val |-> discover_affiliate_programs(product, overflow_checks)]
    /\ UNCHANGED <<product, now, db, calls>>

InitDiscover == product \in DiscoverProducts /\ ret = NoCall /\ now = 0 /\ db = NoRows /\ calls = NoCalls

NextDiscover == DiscoverPlatforms

SpecDiscover == InitDiscover /\ [][NextDiscover]_vars

\* ------------------------------------------------------------------------
\* analytics_service.rs: ad-type analysis of a product
\* ------------------------------------------------------------------------
AnalyzeCategories ==
    \* "Consumer Electronics", "Beauty & Skincare", "Health & Wellness"
    {<<"C", "o", "n", "s", "u", "m", "e", "r", " ", "E", "l", "e", "c", "t", "r", "o", "n", "i",
       "c", "s">>, <<"B", "e", "a", "u", "t", "y", " ", "&", " ", "S", "k", "i", "n",
                                 "c", "a", "r", "e">>, <<"H", "e", "a", "l", "t", "h", " ", "&",
                                                        " ",
                                                        "W",
                                                        "e",
                                                        "l",
                                                        "l",
                                                        "n",
                                                        "e",
                                                        "s",
                                                        "s">>,
     \* "Fashion & Apparel", "Pet Supplies"
     <<"F", "a", "s", "h", "i", "o", "n", " ", "&", " ", "A", "p", "p", "a", "r", "e", "l">>, <<"P", "e", "t", " ", "S", "u", "p", "p", "l", "i", "e", "s">>}

AnalyzeAudiences ==
    \* "Age 30-45", "Gen Z, Age 18-24", "Age 55-70, Boomers"
    {None, Some(<<"A", "g", "e", " ", "3", "0", "-", "4", "5">>), Some(<<"G", "e", "n", " ", "Z", ",", " ", "A", "g", "e", " ", "1",
                                       "8", "-", "2", "4">>), Some(<<"A", "g", "e", " ", "5", "5",
                                                                   "-",
                                                                   "7",
                                                                   "0",
                                                                   ",",
                                                                   " ",
                                                                   "B",
                                                                   "o",
                                                                   "o",
                                                                   "m",
                                                                   "e",
                                                                   "r",
                                                                   "s">>),
     \* "zoomer", "Age 2000000000-2000000000"
     Some(<<"z", "o", "o", "m", "e", "r">>), Some(<<"A", "g", "e", " ", "2", "0", "0", "0", "0", "0", "0", "0", "0", "0",
                              "-", "2", "0", "0", "0", "0", "0", "0",
                              "0", "0", "0">>),
     \* "Millennial, Age 18-24"
     Some(<<"M", "i", "l", "l", "e", "n", "n", "i", "a", "l", ",", " ", "A", "g", "e", " ", "1",
            "8", "-", "2", "4">>)}

AnalyzeTrending == {None, Some(40), Some(60), Some(75), Some(80), Some(85)}

AnalyzeIds ==
    {{}, {"tiktok_product_id"}, {"instagram_product_id"}, {"youtube_video_id"},
     {"pinterest_pin_id"}, {"amazon_asin"}, {"instagram_product_id", "pinterest_pin_id"},
     {"tiktok_product_id", "instagram_product_id", "youtube_video_id"}, PlatformIdFields}

AnalyzeProducts ==
    {Product(TestName, c, None, a, t, ids) :
        c \in AnalyzeCategories, a \in AnalyzeAudiences, t \in AnalyzeTrending,
        ids \in AnalyzeIds}

AnalyzeAdType ==
    /\ ret.op = "none"
    /\ ret' = [op |-> "analyze_ad_type", val |-> analyze_market_for_product(product)]
    /\ UNCHANGED <<product, now, db, calls>>

InitAnalyze == product \in AnalyzeProducts /\ ret = NoCall /\ now = 0 /\ db = NoRows /\ calls = NoCalls

NextAnalyze == AnalyzeAdType

SpecAnalyze == InitAnalyze /\ [][NextAnalyze]_vars

\* ------------------------------------------------------------------------
\* ai_affiliate.rs: tracking URLs built while the clock advances
\* ------------------------------------------------------------------------
UrlPlatforms ==
    \* "etsy"
    {PlatformToString(p) : p \in AffiliatePlatform} \cup {<<"e", "t", "s", "y">>}

\* "Amazon Associates", "TikTok Shop Creator Program"
UrlProgramNames == {<<"A", "m", "a", "z", "o", "n", " ", "A", "s", "s", "o", "c", "i", "a", "t",
                      "e", "s">>, <<"T", "i", "k", "T", "o", "k", " ", "S", "h", "o", "p",
                                             " ", "C",
                                             "r", "e",
                                             "a", "t",
                                             "o", "r",
                                             " ", "P",
                                             "r", "o",
                                             "g", "r",
                                             "a", "m">>}

\* "Smart Ring", ""
UrlProductNames == {TestName, <<"S", "m", "a", "r", "t", " ", "R", "i", "n", "g">>, <<>>}

UrlDestinations ==
    \* "https://shop.example/p/1", "https://www.amazon.com/dp/B0TEST", ""
    {<<"h", "t", "t", "p", "s", ":", "/", "/", "s", "h", "o", "p", ".", "e", "x", "a", "m", "p",
       "l", "e", "/", "p", "/", "1">>, <<"h", "t", "t", "p", "s", ":", "/", "/", "w", "w", "w", ".",
                                     "a", "m", "a", "z", "o",
                                     "n", ".", "c", "o", "m",
                                     "/", "d", "p", "/", "B",
                                     "0", "T", "E", "S", "T">>, <<>>}

\* one millisecond passes
Tick ==
    /\ now < MaxClock
    /\ now' = now + 1
    /\ UNCHANGED <<product, ret, db, calls>>

GenerateTrackingUrl ==
    \E platform \in UrlPlatforms, program_name \in UrlProgramNames,
       product_name \in UrlProductNames, destination_url \in UrlDestinations :
        /\ ret' = [op  |-> "generate_tracking_url",
                   val |-> [platform        |-> platform,
                            program_name    |-> program_name,
                            product_name    |-> product_name,
                            destination_url |-> destination_url,
                            at              |-> now,
                            url |-> generate_tracking_url(platform, program_name,
                                        product_name, destination_url, now)]]
        /\ UNCHANGED <<product, now, db, calls>>

InitUrl ==
    \* "Home & Kitchen"
    /\ product = Product(TestName, <<"H", "o", "m", "e", " ", "&", " ", "K", "i", "t", "c", "h",
                                     "e", "n">>, None, None, None, {})
    /\ ret = NoCall
    /\ now = 0
    /\ db = NoRows /\ calls = NoCalls

NextUrl == Tick \/ GenerateTrackingUrl

SpecUrl == InitUrl /\ [][NextUrl]_vars

\* ------------------------------------------------------------------------
\* Properties of the ad-type analysis
\* ------------------------------------------------------------------------
Analyzed == ret.op = "analyze_ad_type"

\* C1: every analysis names one recommended format of the six, at most three
\* alternatives that are pairwise distinct and all differ from the recommended
\* format, and a confidence_score between 0.0 and 1.0.
C1_OneRecommendationDistinctAlternatives ==
    Analyzed =>
        LET alt == ret.val.alternative_types
        IN  /\ \E i \in 1..Len(AdTypeAll) : AdTypeAll[i] = ret.val.recommended_ad_type
            /\ Len(alt) <= 3
            /\ \A i, j \in 1..Len(alt) : i # j => alt[i] # alt[j]
            /\ \A i \in 1..Len(alt) : alt[i] # ret.val.recommended_ad_type
            /\ FGe(ret.val.confidence_score, FZero)
            /\ FLe(ret.val.confidence_score, FOne)

\* an analysis of a product with platform ids that lists three alternatives
C1_Witness ==
    /\ Analyzed
    /\ product.ids # {}
    /\ Len(ret.val.alternative_types) = 3
    /\ FGt(ret.val.confidence_score, F(80))

Scenario(category, target_audience, trending_score) ==
    /\ product.ids = {}
    /\ product.category = category
    /\ product.target_audience = Some(target_audience)
    /\ product.trending_score = Some(trending_score)

\* C10: the three pinned scenarios on a product without platform ids: Consumer
\* Electronics for "Age 30-45" at trending 60 is recommended the video script,
\* Beauty & Skincare for "Gen Z, Age 18-24" at trending 75 the story, Health &
\* Wellness for "Age 55-70, Boomers" at trending 40 the email.
C10_PinnedScenarios ==
    Analyzed =>
        \* "Consumer Electronics", "Age 30-45"
        /\ Scenario(<<"C", "o", "n", "s", "u", "m", "e", "r", " ", "E", "l", "e", "c", "t", "r",
                      "o", "n", "i", "c", "s">>, <<"A", "g", "e", " ", "3", "0", "-", "4", "5">>, 60)
              => ret.val.recommended_ad_type = "VideoScript"
        \* "Beauty & Skincare", "Gen Z, Age 18-24"
        /\ Scenario(<<"B", "e", "a", "u", "t", "y", " ", "&", " ", "S", "k", "i", "n", "c", "a",
                      "r", "e">>, <<"G", "e", "n", " ", "Z", ",", " ", "A", "g", "e", " ",
                                             "1", "8",
                                             "-", "2",
                                             "4">>, 75)
              => ret.val.recommended_ad_type = "Story"
        \* "Health & Wellness", "Age 55-70, Boomers"
        /\ Scenario(<<"H", "e", "a", "l", "t", "h", " ", "&", " ", "W", "e", "l", "l", "n", "e",
                      "s", "s">>, <<"A", "g", "e", " ", "5", "5", "-", "7", "0", ",", " ",
                                             "B", "o",
                                             "o", "m",
                                             "e", "r",
                                             "s">>, 40)
              => ret.val.recommended_ad_type = "Email"

\* the analysis of the Health & Wellness scenario has been returned
C10_Witness ==
    /\ Analyzed
    \* "Health & Wellness", "Age 55-70, Boomers"
    /\ Scenario(<<"H", "e", "a", "l", "t", "h", " ", "&", " ", "W", "e", "l", "l", "n", "e", "s",
                  "s">>, <<"A", "g", "e", " ", "5", "5", "-", "7", "0", ",", " ",
                                         "B", "o", "o", "m",
                                         "e", "r", "s">>, 40)
    /\ ret.val.recommended_ad_type = "Email"

\* ------------------------------------------------------------------------
\* Properties of the platform discovery
\* ------------------------------------------------------------------------
Discovered == ret.op = "discover_platforms" /\ ret.val.status = "ok"

\* the position of a platform in the enumeration of the discovery loop
EnumerationIndex(platform_enum) ==
    CHOOSE i \in 1..Len(ScoredPlatforms) : ScoredPlatforms[i] = platform_enum

\* C2: the returned programs are in non-increasing order of audience_match_score,
\* and two programs with equal scores keep the enumeration order tiktok, instagram,
\* amazon, youtube, pinterest.
C2_DescendingStableOrder ==
    Discovered =>
        \A i, j \in 1..Len(ret.val.programs) :
            i < j =>
                LET a == ret.val.programs[i]
                    b == ret.val.programs[j]
                IN  /\ FGe(a.audience_match_score, b.audience_match_score)
                    /\ FCmp(a.audience_match_score, b.audience_match_score) = 0
                          => EnumerationIndex(a.platform) < EnumerationIndex(b.platform)

\* a result in which the sort moved a later platform ahead of an earlier one and
\* in which two programs tie
C2_Witness ==
    /\ Discovered
    /\ \E i, j \in 1..Len(ret.val.programs) :
          /\ i < j
          /\ EnumerationIndex(ret.val.programs[i].platform)
                > EnumerationIndex(ret.val.programs[j].platform)
    /\ \E i, j \in 1..Len(ret.val.programs) :
          /\ i < j
          /\ FCmp(ret.val.programs[i].audience_match_score,
                  ret.val.programs[j].audience_match_score) = 0

\* the composite score in exact arithmetic, in units of 1/10000
ExactComposite(platform, p) ==
    LET age_range  == extract_age_range(AudienceText(p))
        price_tier == parse_price_tier(PriceText(p))
    IN  50 * calculate_age_alignment(platform, age_range)
        + 25 * calculate_category_fit(platform, p.category)
        + 15 * calculate_trending_fit(platform, unwrap_or(p.trending_score, 50))
        + 10 * calculate_price_fit(platform, price_tier)

Listed(platform_enum) ==
    \E i \in 1..Len(ret.val.programs) : ret.val.programs[i].platform = platform_enum

\* C3: a scored platform is listed exactly when its composite score
\* 0.50*age + 0.25*category + 0.15*trending + 0.10*price is strictly greater than
\* 0.3, so that tiktok at exactly 0.3 is left out; at most five programs are
\* listed and no platform is listed twice.
C3_ListedIffAboveFloor ==
    (Discovered /\ ~ret.val.overflow) =>
        /\ \A k \in 1..Len(ScoredPlatforms) :
              Listed(ScoredPlatforms[k])
                 <=> ExactComposite(PlatformToString(ScoredPlatforms[k]), product) > 3000
        /\ Len(ret.val.programs) <= 5
        /\ \A i, j \in 1..Len(ret.val.programs) :
              i # j => ret.val.programs[i].platform # ret.val.programs[j].platform

\* C5: every returned program has confidence_score = 0.85 + 0.15 * audience_match_score,
\* with audience_match_score between 0.0 and 1.0 and confidence_score between 0.85
\* and 1.0.
C5_ConfidenceFromAudienceMatch ==
    Discovered =>
        \A i \in 1..Len(ret.val.programs) :
            LET r == ret.val.programs[i]
            IN  /\ r.confidence_score = FAdd(F(85), FMulRaw(F(15), r.audience_match_score))
                /\ FGe(r.audience_match_score, FZero)
                /\ FLe(r.audience_match_score, FOne)
                /\ FGe(r.confidence_score, F(85))
                /\ FLe(r.confidence_score, FOne)

\* five programs returned, one with a perfect match and one without
C5_Witness ==
    /\ Discovered
    /\ Len(ret.val.programs) = 5
    /\ \E i \in 1..Len(ret.val.programs) :
          /\ FCmp(ret.val.programs[i].audience_match_score, FOne) = 0
          /\ FCmp(ret.val.programs[i].confidence_score, FOne) = 0
    /\ \E i \in 1..Len(ret.val.programs) :
          /\ FGt(FOne, ret.val.programs[i].confidence_score)
          /\ FGt(ret.val.programs[i].confidence_score, F(85))

\* C8: discovery returns a result for every audience and price text, and the
\* average age (min + max) / 2 is computed without integer overflow.
C8_DiscoveryTotal ==
    ret.op = "discover_platforms" => (ret.val.status = "ok" /\ ~ret.val.overflow)

\* ------------------------------------------------------------------------
\* Properties of the attribute parsers
\* ------------------------------------------------------------------------

\* the first run of digits of a text, the empty text when it has no digit
FirstDigitRun(text) ==
    IF \E i \in 1..Len(text) : IsDigit(text[i])
    THEN LET i == CHOOSE k \in 1..Len(text) :
                      IsDigit(text[k]) /\ \A j \in 1..(k - 1) : ~IsDigit(text[j])
         IN  SubSeq(text, i, DigitRunEnd(text, i) - 1)
    ELSE <<>>

RECURSIVE StripLeadingZeros(_)
StripLeadingZeros(run) ==
    IF run # <<>> /\ Head(run) = "0" THEN StripLeadingZeros(Tail(run)) ELSE run

\* the tier of the value of a digit run of any length: a value of four or more
\* significant digits is at least 1000
TierOfRun(run) ==
    LET digits == StripLeadingZeros(run)
        v      == unwrap_or(parse_i32(digits), 0)
    IN  IF Len(digits) > 3 THEN "Premium"
        ELSE IF v < 50 THEN "Low"
        ELSE IF v < 150 THEN "Medium"
        ELSE IF v < 500 THEN "High"
        ELSE "Premium"

\* C6: the tier of a price text is that of the value v of its first run of digits,
\* v < 50 Low, v < 150 Medium, v < 500 High, otherwise Premium however large v is;
\* a text without a digit is Medium.
C6_TierOfFirstDigitRun ==
    ret.op = "parse_price_tier" =>
        LET run == FirstDigitRun(PriceText(product))
        IN  ret.val = IF run = <<>> THEN "Medium" ELSE TierOfRun(run)

\* C7: the ad-type scorer's age range is that of the first NN-NN range of the text;
\* without a range it is (18,25) for "gen z", "genz" or "zoomer", (26,40) for
\* "millennial", (41,55) for "gen x" or "genx", (56,70) for "boomer" or "senior",
\* and (25,45) otherwise.
C7_RangeOrGenerationFallback ==
    ret.op = "analytics_extract_age_range" =>
        LET audience == to_lowercase(AudienceText(product))
            caps     == AgeRangePatternCaptures(audience)
            c        == unwrap_or(caps, [min |-> <<>>, max |-> <<>>])
        IN  ret.val =
                IF is_some(caps)
                THEN <<unwrap_or(parse_i32(c.min), 25), unwrap_or(parse_i32(c.max), 45)>>
                \* "gen z", "genz", "zoomer"
                ELSE IF HasAny(audience, {<<"g", "e", "n", " ", "z">>, <<"g", "e", "n", "z">>, <<"z", "o", "o", "m", "e", "r">>}) THEN <<18, 25>>
                \* "millennial"
                ELSE IF contains(audience, <<"m", "i", "l", "l", "e", "n", "n", "i", "a", "l">>) THEN <<26, 40>>
                \* "gen x", "genx"
                ELSE IF HasAny(audience, {<<"g", "e", "n", " ", "x">>, <<"g", "e", "n", "x">>}) THEN <<41, 55>>
                \* "boomer", "senior"
                ELSE IF HasAny(audience, {<<"b", "o", "o", "m", "e", "r">>, <<"s", "e", "n", "i", "o", "r">>}) THEN <<56, 70>>
                ELSE <<25, 45>>

\* ------------------------------------------------------------------------
\* Properties of the tracking-URL builder
\* ------------------------------------------------------------------------

\* C9: a tracking URL built for platform "amazon" contains "tag=affilai-20" and the
\* tracking id generated at the call, and is the URL built at that instant for any
\* other destination URL and product name.
C9_AmazonUrlIgnoresDestination ==
    \* "amazon"
    (ret.op = "generate_tracking_url" /\ ret.val.platform = <<"a", "m", "a", "z", "o", "n">>) =>
        \* "tag=affilai-20"
        /\ contains(ret.val.url, <<"t", "a", "g", "=", "a", "f", "f", "i", "l", "a", "i", "-", "2",
                                   "0">>)
        /\ contains(ret.val.url, generate_tracking_id(ret.val.at))
        \* "utm_campaign"
        /\ ~contains(ret.val.url, <<"u", "t", "m", "_", "c", "a", "m", "p", "a", "i", "g", "n">>)
        /\ \A d \in UrlDestinations, n \in UrlProductNames :
              \* "amazon"
              generate_tracking_url(<<"a", "m", "a", "z", "o", "n">>, ret.val.program_name, n, d, ret.val.at)
                 = ret.val.url

\* an amazon URL built for a destination on another site after the clock advanced
C9_Witness ==
    /\ ret.op = "generate_tracking_url"
    \* "amazon"
    /\ ret.val.platform = <<"a", "m", "a", "z", "o", "n">>
    \* "https://shop.example/p/1"
    /\ ret.val.destination_url = <<"h", "t", "t", "p", "s", ":", "/", "/", "s", "h", "o", "p", ".",
                                   "e", "x", "a", "m", "p", "l",
                                   "e", "/", "p", "/", "1">>
    \* "Smart Ring"
    /\ ret.val.product_name = <<"S", "m", "a", "r", "t", " ", "R", "i", "n", "g">>
    /\ ret.val.at > 0

\* ------------------------------------------------------------------------
\* Properties of the ad-type analysis: trending products
\* ------------------------------------------------------------------------
HighTrending == unwrap_or(product.trending_score, DefaultTrending) >= 80

\* C11: for a product with a trending score of at least 80, whatever its
\* category, audience and platform ids, the social post alone totals more than
\* 0.6 and the confidence_score of the analysis is strictly greater than 0.6.
C11_HighTrendingConfidence ==
    (Analyzed /\ HighTrending) =>
        /\ FGt(AdTypeScore(product, "SocialPost").total_score, F(60))
        /\ FGt(ret.val.confidence_score, F(60))

\* a product at the edge of the band (trending 80) whose social post has the
\* baseline category score, the lowest audience score and no platform ids has been analysed
C11_Witness ==
    /\ Analyzed
    /\ product.trending_score = Some(80)
    /\ product.ids = {}
    /\ AdTypeScore(product, "SocialPost").category_score = 60
    /\ AdTypeScore(product, "SocialPost").audience_score = 40
    /\ FGt(ret.val.confidence_score, F(60))

\* ------------------------------------------------------------------------
\* Properties of the ad-type analysis: generational bands
\* ------------------------------------------------------------------------
\* the band named by a generation keyword of the lower-cased audience text
KeywordBand(audience_lower) ==
    \* "gen z", "genz", "zoomer"
    IF HasAny(audience_lower, {<<"g", "e", "n", " ", "z">>, <<"g", "e", "n", "z">>, <<"z", "o", "o", "m", "e", "r">>}) THEN "gen_z"
    \* "millennial"
    ELSE IF contains(audience_lower, <<"m", "i", "l", "l", "e", "n", "n", "i", "a", "l">>) THEN "millennial"
    \* "gen x", "genx"
    ELSE IF HasAny(audience_lower, {<<"g", "e", "n", " ", "x">>, <<"g", "e", "n", "x">>}) THEN "gen_x"
    \* "boomer", "senior"
    ELSE IF HasAny(audience_lower, {<<"b", "o", "o", "m", "e", "r">>, <<"s", "e", "n", "i", "o", "r">>}) THEN "boomer"
    ELSE "none"

\* the band of the average age of the numeric range
NumericBand(avg) ==
    IF avg >= 18 /\ avg <= 25 THEN "gen_z"
    ELSE IF avg >= 26 /\ avg <= 40 THEN "millennial"
    ELSE IF avg >= 41 /\ avg <= 55 THEN "gen_x"
    ELSE IF avg > 55 THEN "boomer"
    ELSE "none"

\* one band per text: the keyword band where there is one, else the numeric
OneBand(target_audience) ==
    LET audience_lower == to_lowercase(target_audience)
        age_range == analytics_extract_age_range(audience_lower)
    IN  IF KeywordBand(audience_lower) # "none" THEN KeywordBand(audience_lower)
        ELSE NumericBand(I32Div(age_range[1] + age_range[2], 2))

\* the score a format gives to a single band
BandScore(ad_type, band) ==
    AudienceBandScore(ad_type, band = "gen_z", band = "millennial",
                      band = "gen_x", band = "boomer")

\* C19: the audience text of a product is collapsed into one generational band,
\* the keyword band taking precedence over the band of the numeric range, and
\* each of the six formats gets the audience score of that band.
C19_OneBandForAllFormats ==
    (Analyzed /\ is_some(product.target_audience)) =>
        \A i \in 1..Len(AdTypeAll) :
            AdTypeScore(product, AdTypeAll[i]).audience_score
                = BandScore(AdTypeAll[i], OneBand(unwrap_or(product.target_audience, <<>>)))

\* ------------------------------------------------------------------------
\* Properties of the ad-type analysis: the ranking
\* ------------------------------------------------------------------------
\* total = 0.30*category + 0.35*audience + 0.20*trending + 0.15*platform
TotalOf(ad_type) ==
    LET s == AdTypeScore(product, ad_type)
    IN  FAdd(FAdd(FAdd(Weighted(s.category_score, 30), Weighted(s.audience_score, 35)),
                  Weighted(s.trending_score, 20)),
             Weighted(s.platform_score, 15))

\* the place of the i-th format of the enumeration in the descending ranking,
\* equal totals in enumeration order
RankOf(totals, i) ==
    1 + Cardinality({j \in 1..Len(totals) :
                        \/ FGt(totals[j], totals[i])
                        \/ (j < i /\ FCmp(totals[j], totals[i]) = 0)})

\* C20: the six formats are ranked by their weighted total in descending order,
\* equal totals in enumeration order; the recommended format is the first of
\* the ranking, confidence_score is its total, the alternatives are the second,
\* third and fourth of the ranking in that order, and no alternative has a
\* higher total than the recommended format.
C20_RankedByTotal ==
    Analyzed =>
        LET totals == collect([i \in 1..Len(AdTypeAll) |-> TotalOf(AdTypeAll[i])])
            alt == ret.val.alternative_types
        IN  /\ Len(alt) = 3
            /\ \A i \in 1..Len(AdTypeAll) :
                  /\ RankOf(totals, i) = 1 =>
                        /\ ret.val.recommended_ad_type = AdTypeAll[i]
                        /\ ret.val.confidence_score = totals[i]
                        /\ \A j \in 1..Len(AdTypeAll) : FLe(totals[j], totals[i])
                  /\ RankOf(totals, i) \in 2..4 => alt[RankOf(totals, i) - 1] = AdTypeAll[i]

\* an analysis in which two of the four leading formats have equal totals
C20_Witness ==
    /\ Analyzed
    /\ LET totals == collect([i \in 1..Len(AdTypeAll) |-> TotalOf(AdTypeAll[i])])
       IN  \E i, j \in 1..Len(AdTypeAll) :
              /\ i < j
              /\ FCmp(totals[i], totals[j]) = 0
              /\ RankOf(totals, j) <= 4

\* ------------------------------------------------------------------------
\* Properties of the attribute parsers: the two age-range parsers
\* ------------------------------------------------------------------------
\* C18: the platform scorer and the ad-type scorer derive the same age range
\* from the same audience text: the range extract_age_range of ai_affiliate
\* returns for a text is the range extract_age_range of analytics_service
\* returns for the lower-cased text, a range without "age" before it ("18-35")
\* and a text with only a generation keyword ("Gen Z shoppers") included.
C18_SameAgeRange ==
    /\ ret.op = "extract_age_range"
          => ret.val = analytics_extract_age_range(to_lowercase(AudienceText(product)))
    /\ ret.op = "analytics_extract_age_range"
          => ret.val = extract_age_range(AudienceText(product))

\* ------------------------------------------------------------------------
\* ad_generation.rs: the market analysis behind a generated ad
\* ------------------------------------------------------------------------
\* a faulty variant: the program with the lowest audience match, the last one
recommended_platform_last(programs) ==
    \* "instagram"
    IF programs = <<>> THEN <<"i", "n", "s", "t", "a", "g", "r", "a", "m">>
    ELSE PlatformToString(programs[Len(programs)].platform)

\* programs.first().map(|p| p.platform.to_string()), else "instagram"
recommended_platform(programs) ==
    \* "instagram"
    IF programs = <<>> THEN <<"i", "n", "s", "t", "a", "g", "r", "a", "m">>
    ELSE PlatformToString(Head(programs).platform)

\* the ad type is chosen from the recommended platform and the category
recommended_ad_type(platform, category) ==
    \* "tiktok", "video_script"
    CASE platform = <<"t", "i", "k", "t", "o", "k">> -> <<"v", "i", "d", "e", "o", "_", "s", "c", "r", "i", "p", "t">>
      \* "instagram"
      [] platform = <<"i", "n", "s", "t", "a", "g", "r", "a", "m">> ->
             \* "Fashion", "Beauty"
             IF contains(category, <<"F", "a", "s", "h", "i", "o", "n">>) \/ contains(category, <<"B", "e", "a", "u", "t",
                                                                        "y">>)
             \* "carousel", "story"
             THEN <<"c", "a", "r", "o", "u", "s", "e", "l">> ELSE <<"s", "t", "o", "r", "y">>
      \* "youtube", "video_script"
      [] platform = <<"y", "o", "u", "t", "u", "b", "e">> -> <<"v", "i", "d", "e", "o", "_", "s", "c", "r", "i", "p", "t">>
      \* "pinterest", "carousel"
      [] platform = <<"p", "i", "n", "t", "e", "r", "e", "s", "t">> -> <<"c", "a", "r", "o", "u", "s", "e", "l">>
      \* "facebook", "social_post"
      [] platform = <<"f", "a", "c", "e", "b", "o", "o", "k">> -> <<"s", "o", "c", "i", "a", "l", "_", "p", "o", "s", "t">>
      \* "social_post"
      [] OTHER -> <<"s", "o", "c", "i", "a", "l", "_", "p", "o", "s", "t">>

generate_selling_points(category, product_name) ==
    \* "Beauty & Skincare"
    CASE category = <<"B", "e", "a", "u", "t", "y", " ", "&", " ", "S", "k", "i", "n", "c", "a",
                      "r", "e">> ->
             \* "Clinically proven results", "Natural, clean ingredients"
             <<<<"C", "l", "i", "n", "i", "c", "a", "l", "l", "y", " ", "p", "r", "o", "v", "e",
                 "n", " ", "r", "e", "s", "u", "l", "t", "s">>, <<"N", "a", "t", "u", "r", "a", "l", ",", " ", "c",
                                                "l",
                                                "e",
                                                "a",
                                                "n",
                                                " ",
                                                "i",
                                                "n",
                                                "g",
                                                "r",
                                                "e",
                                                "d",
                                                "i",
                                                "e",
                                                "n",
                                                "t",
                                                "s">>,
               \* "Visible improvement in weeks", " loved by thousands"
               <<"V", "i", "s", "i", "b", "l", "e", " ", "i", "m", "p", "r", "o", "v", "e", "m",
                 "e", "n", "t", " ", "i", "n", " ", "w", "e", "e", "k", "s">>, product_name \o <<" ", "l", "o", "v", "e", "d",
                                                                   " ",
                                                                   "b",
                                                                   "y",
                                                                   " ",
                                                                   "t",
                                                                   "h",
                                                                   "o",
                                                                   "u",
                                                                   "s",
                                                                   "a",
                                                                   "n",
                                                                   "d",
                                                                   "s">>>>
      \* "Health & Wellness"
      [] category = <<"H", "e", "a", "l", "t", "h", " ", "&", " ", "W", "e", "l", "l", "n", "e",
                      "s", "s">> ->
             \* "Science-backed formula", "Supports overall wellbeing"
             <<<<"S", "c", "i", "e", "n", "c", "e", "-", "b", "a", "c", "k", "e", "d", " ", "f",
                 "o", "r", "m", "u", "l", "a">>, <<"S", "u", "p", "p", "o", "r", "t", "s", " ", "o", "v",
                                             "e", "r",
                                             "a", "l",
                                             "l", " ",
                                             "w", "e",
                                             "l", "l",
                                             "b", "e",
                                             "i", "n",
                                             "g">>,
               \* "Easy to incorporate daily", "Trusted by health experts"
               <<"E", "a", "s", "y", " ", "t", "o", " ", "i", "n", "c", "o", "r", "p", "o", "r",
                 "a", "t", "e", " ", "d", "a", "i", "l", "y">>, <<"T", "r", "u", "s", "t", "e", "d", " ", "b", "y",
                                                " ",
                                                "h",
                                                "e",
                                                "a",
                                                "l",
                                                "t",
                                                "h",
                                                " ",
                                                "e",
                                                "x",
                                                "p",
                                                "e",
                                                "r",
                                                "t",
                                                "s">>>>
      \* "Fitness & Recovery"
      [] category = <<"F", "i", "t", "n", "e", "s", "s", " ", "&", " ", "R", "e", "c", "o", "v",
                      "e", "r", "y">> ->
             \* "Accelerate your recovery", "Professional-grade quality"
             <<<<"A", "c", "c", "e", "l", "e", "r", "a", "t", "e", " ", "y", "o", "u", "r", " ",
                 "r", "e", "c", "o", "v", "e", "r", "y">>, <<"P", "r", "o", "f", "e", "s", "s", "i", "o", "n",
                                               "a",
                                               "l",
                                               "-",
                                               "g",
                                               "r",
                                               "a",
                                               "d",
                                               "e",
                                               " ",
                                               "q",
                                               "u",
                                               "a",
                                               "l",
                                               "i",
                                               "t",
                                               "y">>,
               \* "Used by athletes worldwide", "See results faster"
               <<"U", "s", "e", "d", " ", "b", "y", " ", "a", "t", "h", "l", "e", "t", "e", "s",
                 " ", "w", "o", "r", "l", "d", "w", "i", "d", "e">>, <<"S", "e", "e", " ", "r", "e", "s", "u", "l", "t",
                                                 "s",
                                                 " ",
                                                 "f",
                                                 "a",
                                                 "s",
                                                 "t",
                                                 "e",
                                                 "r">>>>
      \* "Consumer Electronics", "Wearable Health Technology"
      [] category \in {<<"C", "o", "n", "s", "u", "m", "e", "r", " ", "E", "l", "e", "c", "t", "r",
                         "o", "n", "i", "c", "s">>, <<"W", "e", "a", "r", "a", "b", "l", "e", " ",
                                                   "H",
                                                   "e",
                                                   "a",
                                                   "l",
                                                   "t",
                                                   "h",
                                                   " ",
                                                   "T",
                                                   "e",
                                                   "c",
                                                   "h",
                                                   "n",
                                                   "o",
                                                   "l",
                                                   "o",
                                                   "g",
                                                   "y">>} ->
             \* "Cutting-edge technology", "Seamless integration"
             <<<<"C", "u", "t", "t", "i", "n", "g", "-", "e", "d", "g", "e", " ", "t", "e", "c",
                 "h", "n", "o", "l", "o", "g", "y">>, <<"S", "e", "a", "m", "l", "e", "s", "s", " ", "i",
                                              "n", "t",
                                              "e", "g",
                                              "r", "a",
                                              "t", "i",
                                              "o", "n">>,
               \* "Track your progress", "Premium build quality"
               <<"T", "r", "a", "c", "k", " ", "y", "o", "u", "r", " ", "p", "r", "o", "g", "r",
                 "e", "s", "s">>, <<"P", "r", "e", "m", "i", "u", "m", " ", "b", "u", "i",
                                          "l", "d", " ",
                                          "q", "u", "a",
                                          "l", "i", "t",
                                          "y">>>>
      \* "Fashion & Apparel"
      [] category = <<"F", "a", "s", "h", "i", "o", "n", " ", "&", " ", "A", "p", "p", "a", "r",
                      "e", "l">> ->
             \* "Trendsetting style", "Premium materials"
             <<<<"T", "r", "e", "n", "d", "s", "e", "t", "t", "i", "n", "g", " ", "s", "t", "y",
                 "l", "e">>, <<"P", "r", "e", "m", "i", "u", "m", " ", "m", "a", "t",
                                         "e", "r", "i", "a",
                                         "l", "s">>,
               \* "Versatile for any occasion", "Limited availability"
               <<"V", "e", "r", "s", "a", "t", "i", "l", "e", " ", "f", "o", "r", " ", "a", "n",
                 "y", " ", "o", "c", "c", "a", "s", "i", "o", "n">>, <<"L", "i", "m", "i", "t", "e", "d", " ", "a", "v",
                                                 "a",
                                                 "i",
                                                 "l",
                                                 "a",
                                                 "b",
                                                 "i",
                                                 "l",
                                                 "i",
                                                 "t",
                                                 "y">>>>
      \* "Home & Kitchen"
      [] category = <<"H", "o", "m", "e", " ", "&", " ", "K", "i", "t", "c", "h", "e", "n">> ->
             \* "Transform your space", "Built to last"
             <<<<"T", "r", "a", "n", "s", "f", "o", "r", "m", " ", "y", "o", "u", "r", " ", "s",
                 "p", "a", "c", "e">>, <<"B", "u", "i", "l", "t", " ", "t", "o", " ", "l", "a",
                                           "s", "t">>,
               \* "Saves time and effort", "Top-rated by customers"
               <<"S", "a", "v", "e", "s", " ", "t", "i", "m", "e", " ", "a", "n", "d", " ", "e",
                 "f", "f", "o", "r", "t">>, <<"T", "o", "p", "-", "r", "a", "t", "e", "d", " ", "b",
                                            "y", " ",
                                            "c", "u",
                                            "s", "t",
                                            "o", "m",
                                            "e", "r",
                                            "s">>>>
      [] OTHER ->
             \* "Premium quality", "Exceptional value", "Customer favorite"
             <<<<"P", "r", "e", "m", "i", "u", "m", " ", "q", "u", "a", "l", "i", "t", "y">>, <<"E", "x", "c", "e", "p", "t", "i", "o", "n", "a", "l", " ",
                                      "v", "a", "l", "u", "e">>, <<"C", "u", "s", "t", "o", "m", "e",
                                                             "r",
                                                             " ",
                                                             "f",
                                                             "a",
                                                             "v",
                                                             "o",
                                                             "r",
                                                             "i",
                                                             "t",
                                                             "e">>,
               \* "Discover why ", " is trending"
               <<"D", "i", "s", "c", "o", "v", "e", "r", " ", "w", "h", "y", " ">> \o product_name \o <<" ", "i", "s", " ", "t", "r", "e", "n", "d",
                                                      "i",
                                                      "n",
                                                      "g">>>>

suggested_tone(target_audience) ==
    \* "18-25", "18-30"
    IF contains(target_audience, <<"1", "8", "-", "2", "5">>) \/ contains(target_audience, <<"1", "8", "-", "3", "0">>)
    \* "casual and trendy"
    THEN <<"c", "a", "s", "u", "a", "l", " ", "a", "n", "d", " ", "t", "r", "e", "n", "d", "y">>
    \* "45", "50"
    ELSE IF contains(target_audience, <<"4", "5">>) \/ contains(target_audience, <<"5", "0">>)
    \* "professional and trustworthy"
    THEN <<"p", "r", "o", "f", "e", "s", "s", "i", "o", "n", "a", "l", " ", "a", "n", "d", " ",
           "t", "r", "u", "s", "t", "w", "o", "r", "t", "h", "y">>
    \* "friendly and engaging"
    ELSE <<"f", "r", "i", "e", "n", "d", "l", "y", " ", "a", "n", "d", " ", "e", "n", "g", "a",
           "g", "i", "n", "g">>

competition_level(category) ==
    \* "Beauty & Skincare", "Fashion & Apparel", "high"
    IF category \in {<<"B", "e", "a", "u", "t", "y", " ", "&", " ", "S", "k", "i", "n", "c", "a",
                       "r", "e">>, <<"F", "a", "s", "h", "i", "o", "n", " ", "&", " ",
                                              "A", "p",
                                              "p", "a",
                                              "r", "e",
                                              "l">>} THEN <<"h", "i", "g", "h">>
    \* "Consumer Electronics", "Wearable Health Technology"
    ELSE IF category \in {<<"C", "o", "n", "s", "u", "m", "e", "r", " ", "E", "l", "e", "c", "t",
                            "r", "o", "n", "i", "c", "s">>, <<"W", "e", "a", "r", "a", "b", "l", "e", " ",
                                                      "H",
                                                      "e",
                                                      "a",
                                                      "l",
                                                      "t",
                                                      "h",
                                                      " ",
                                                      "T",
                                                      "e",
                                                      "c",
                                                      "h",
                                                      "n",
                                                      "o",
                                                      "l",
                                                      "o",
                                                      "g",
                                                      "y">>,
                          \* "Health & Wellness", "Fitness & Recovery", "medium"
                          <<"H", "e", "a", "l", "t", "h", " ", "&", " ", "W", "e", "l", "l", "n",
                            "e", "s", "s">>, <<"F", "i", "t", "n", "e", "s", "s", " ", "&",
                                                   " ",
                                                   "R",
                                                   "e",
                                                   "c",
                                                   "o",
                                                   "v",
                                                   "e",
                                                   "r",
                                                   "y">>} THEN <<"m", "e", "d", "i",
                                                                                "u",
                                                                                "m">>
    \* "low"
    ELSE <<"l", "o", "w">>

\* f64::min of two numbers
FMin(x, y) == IF FLe(x, y) THEN x ELSE y

\* (trending_score as f64 / 100.0 * 0.6 + platform_boost * 0.4).min(1.0), for a
\* trending score in 0..100
estimated_engagement_score(trending_score, programs) ==
    LET base_engagement == F(trending_score)
        platform_boost  == IF programs = <<>> THEN F(50)
                           ELSE Head(programs).audience_match_score
    IN  FMin(FAdd(FMul(base_engagement, F(60)), FMul(platform_boost, F(40))), FOne)

\* analyze_market_for_product of ad_generation.rs; a panic of the discovery is a
\* panic of the analysis
ad_generation_analyze_market_for_product(p, overflow_checks) ==
    \* "Age 25-45"
    LET target_audience == unwrap_or(p.target_audience, <<"A", "g", "e", " ", "2", "5", "-", "4",
                                                          "5">>)
        trending_score  == unwrap_or(p.trending_score, 50)
        \* "$50-$100"
        price_range     == unwrap_or(p.price_range, <<"$", "5", "0", "-", "$", "1", "0", "0">>)
        found    == mock_ai_discovery_with_platforms(p.name, p.category, trending_score,
                        target_audience, price_range, overflow_checks)
        programs == found.programs
        platform == recommended_platform(programs)
    IN  [status                     |-> found.status,
         recommended_ad_type        |-> recommended_ad_type(platform, p.category),
         recommended_platform       |-> platform,
         target_demographic         |-> target_audience,
         key_selling_points         |-> generate_selling_points(p.category, p.name),
         suggested_tone             |-> suggested_tone(target_audience),
         competition_level          |-> competition_level(p.category),
         estimated_engagement_score |-> estimated_engagement_score(trending_score, programs)]

\* ------------------------------------------------------------------------
\* ad_generation.rs: the ad copy templates
\* ------------------------------------------------------------------------
\* points.map(|p| format!("<prefix>{}", p)).join("\n")
RECURSIVE JoinPoints(_, _)
JoinPoints(points, prefix) ==
    IF points = <<>> THEN <<>>
    ELSE IF Len(points) = 1 THEN prefix \o Head(points)
    \* "{LF}"
    ELSE prefix \o Head(points) \o <<"LF">> \o JoinPoints(Tail(points), prefix)

\* the triple (headline, body, cta) for an ad type given as text
\* the instructions are dropped
tone_modifier_dropped(custom_instructions) == <<>>

\* custom_instructions.unwrap_or("")
\* ""
tone_modifier_of(custom_instructions) == unwrap_or(custom_instructions, <<>>)

generate_ad_content(p, ad_type, analysis, custom_instructions) ==
    LET name          == p.name
        category      == to_lowercase(p.category)
        \* ""
        description   == unwrap_or(p.description, <<>>)
        tone_modifier == tone_modifier_of(custom_instructions)
        points        == analysis.key_selling_points
    \* "social_post"
    IN  CASE ad_type = <<"s", "o", "c", "i", "a", "l", "_", "p", "o", "s", "t">> ->
                 \* "Transform your routine with "
                 <<<<"T", "r", "a", "n", "s", "f", "o", "r", "m", " ", "y", "o", "u", "r", " ",
                     "r", "o", "u", "t", "i", "n", "e", " ", "w", "i", "t", "h",
                     " ">> \o name,
                   \* "Discover why everyone is talking about ", ". "
                   <<"D", "i", "s", "c", "o", "v", "e", "r", " ", "w", "h", "y", " ", "e", "v",
                     "e", "r", "y", "o", "n", "e", " ", "i", "s", " ", "t", "a",
                     "l", "k", "i", "n", "g", " ", "a", "b", "o", "u", "t", " ">> \o name \o <<".", " ">>
                       \* " "
                       \o description \o <<" ">>
                       \o (IF tone_modifier = <<>> THEN points[1] ELSE tone_modifier)
                       \* " #trending #musthave"
                       \o <<" ", "#", "t", "r", "e", "n", "d", "i", "n", "g", " ", "#", "m", "u",
                            "s", "t", "h", "a", "v", "e">>,
                   \* "Shop Now"
                   <<"S", "h", "o", "p", " ", "N", "o", "w">>>>
          \* "story"
          [] ad_type = <<"s", "t", "o", "r", "y">> ->
                 \* "POV: You just discovered "
                 <<<<"P", "O", "V", ":", " ", "Y", "o", "u", " ", "j", "u", "s", "t", " ", "d",
                     "i", "s", "c", "o", "v", "e", "r", "e", "d", " ">> \o name,
                   \* "The "
                   <<"T", "h", "e", " ">> \o category
                       \* " that's breaking the internet. Swipe up before it sells out! "
                       \o <<" ", "t", "h", "a", "t", "'", "s", " ", "b", "r", "e", "a", "k", "i",
                            "n", "g", " ", "t", "h", "e", " ", "i", "n",
                            "t", "e", "r", "n", "e", "t", ".", " ", "S",
                            "w", "i", "p", "e", " ", "u", "p", " ", "b",
                            "e", "f", "o", "r", "e", " ", "i", "t", " ",
                            "s", "e", "l", "l", "s", " ", "o", "u", "t",
                            "!", " ">>
                       \o tone_modifier,
                   \* "Swipe Up"
                   <<"S", "w", "i", "p", "e", " ", "U", "p">>>>
          \* "video_script"
          [] ad_type = <<"v", "i", "d", "e", "o", "_", "s", "c", "r", "i", "p", "t">> ->
                 \* "STOP scrolling! You need to see this "
                 <<<<"S", "T", "O", "P", " ", "s", "c", "r", "o", "l", "l", "i", "n", "g", "!",
                     " ", "Y", "o", "u", " ", "n", "e", "e", "d", " ", "t", "o",
                     " ", "s", "e", "e", " ", "t", "h", "i", "s", " ">> \o category,
                   \* "[HOOK] Wait, you don't know about ", " yet?{LF}{LF}"
                   <<"[", "H", "O", "O", "K", "]", " ", "W", "a", "i", "t", ",", " ", "y", "o",
                     "u", " ", "d", "o", "n", "'", "t", " ", "k", "n", "o", "w",
                     " ", "a", "b", "o", "u", "t", " ">> \o name \o <<" ", "y", "e", "t", "?",
                                                                       "LF",
                                                                       "LF">>
                       \* "[PROBLEM] Struggling with your ", "?{LF}{LF}"
                       \o <<"[", "P", "R", "O", "B", "L", "E", "M", "]", " ", "S", "t", "r", "u",
                            "g", "g", "l", "i", "n", "g", " ", "w", "i",
                            "t", "h", " ", "y", "o", "u", "r", " ">> \o category \o <<"?", "LF", "LF">>
                       \* "[SOLUTION] "
                       \o <<"[", "S", "O", "L", "U", "T", "I", "O", "N", "]", " ">> \o name
                       \* " is the game-changer you've been waiting for.{LF}{LF}"
                       \o <<" ", "i", "s", " ", "t", "h", "e", " ", "g", "a", "m", "e", "-", "c",
                            "h", "a", "n", "g", "e", "r", " ", "y", "o",
                            "u", "'", "v", "e", " ", "b", "e", "e", "n",
                            " ", "w", "a", "i", "t", "i", "n", "g", " ",
                            "f", "o", "r", ".", "LF", "LF">>
                       \* "[BENEFITS]{LF}", "- "
                       \o <<"[", "B", "E", "N", "E", "F", "I", "T", "S", "]", "LF">> \o JoinPoints(take(points, 3), <<"-", " ">>)
                       \* "{LF}{LF}"
                       \o <<"LF", "LF">>
                       \* "[CTA] Link in bio - but hurry, it's selling fast!"
                       \o <<"[", "C", "T", "A", "]", " ", "L", "i", "n", "k", " ", "i", "n", " ",
                            "b", "i", "o", " ", "-", " ", "b", "u", "t",
                            " ", "h", "u", "r", "r", "y", ",", " ", "i",
                            "t", "'", "s", " ", "s", "e", "l", "l", "i",
                            "n", "g", " ", "f", "a", "s", "t", "!">>
                       \o (IF tone_modifier = <<>> THEN <<>>
                           \* "{LF}{LF}[NOTE] "
                           ELSE <<"LF", "LF", "[", "N", "O", "T", "E", "]", " ">> \o tone_modifier),
                   \* "Link in Bio"
                   <<"L", "i", "n", "k", " ", "i", "n", " ", "B", "i", "o">>>>
          \* "carousel"
          [] ad_type = <<"c", "a", "r", "o", "u", "s", "e", "l">> ->
                 \* "5 Reasons ", " is a Must-Have"
                 <<<<"5", " ", "R", "e", "a", "s", "o", "n", "s", " ">> \o name \o <<" ", "i", "s", " ", "a", " ", "M", "u", "s", "t",
                                               "-",
                                               "H",
                                               "a",
                                               "v",
                                               "e">>,
                   \* "Slide 1: Meet your new favorite ", "{LF}"
                   <<"S", "l", "i", "d", "e", " ", "1", ":", " ", "M", "e", "e", "t", " ", "y",
                     "o", "u", "r", " ", "n", "e", "w", " ", "f", "a", "v", "o",
                     "r", "i", "t", "e", " ">> \o category \o <<"LF">>
                       \* "Slide 2: ", "{LF}"
                       \o <<"S", "l", "i", "d", "e", " ", "2", ":", " ">> \o points[1] \o <<"LF">>
                       \* "Slide 3: ", "{LF}"
                       \o <<"S", "l", "i", "d", "e", " ", "3", ":", " ">> \o points[2] \o <<"LF">>
                       \* "Slide 4: ", "{LF}"
                       \o <<"S", "l", "i", "d", "e", " ", "4", ":", " ">> \o points[3] \o <<"LF">>
                       \* "Slide 5: Ready to transform your routine?{LF}{LF}"
                       \o <<"S", "l", "i", "d", "e", " ", "5", ":", " ", "R", "e", "a", "d", "y",
                            " ", "t", "o", " ", "t", "r", "a", "n", "s",
                            "f", "o", "r", "m", " ", "y", "o", "u", "r",
                            " ", "r", "o", "u", "t", "i", "n", "e", "?",
                            "LF", "LF">>
                       \o tone_modifier,
                   \* "Save for Later"
                   <<"S", "a", "v", "e", " ", "f", "o", "r", " ", "L", "a", "t", "e", "r">>>>
          \* "email"
          [] ad_type = <<"e", "m", "a", "i", "l">> ->
                 \* "You're going to love ", " - Here's why"
                 <<<<"Y", "o", "u", "'", "r", "e", " ", "g", "o", "i", "n", "g", " ", "t", "o",
                     " ", "l", "o", "v", "e", " ">> \o name \o <<" ", "-", " ", "H", "e", "r", "e", "'",
                                                          "s",
                                                          " ",
                                                          "w",
                                                          "h",
                                                          "y">>,
                   \* "Hi there,{LF}{LF}"
                   <<"H", "i", " ", "t", "h", "e", "r", "e", ",", "LF", "LF">>
                       \* "We noticed you've been looking for the perfect "
                       \o <<"W", "e", " ", "n", "o", "t", "i", "c", "e", "d", " ", "y", "o", "u",
                            "'", "v", "e", " ", "b", "e", "e", "n", " ",
                            "l", "o", "o", "k", "i", "n", "g", " ", "f",
                            "o", "r", " ", "t", "h", "e", " ", "p", "e",
                            "r", "f", "e", "c", "t", " ">> \o category
                       \* ". Well, search no more!{LF}{LF}"
                       \o <<".", " ", "W", "e", "l", "l", ",", " ", "s", "e", "a", "r", "c", "h",
                            " ", "n", "o", " ", "m", "o", "r", "e", "!",
                            "LF", "LF">>
                       \* "Introducing ", " - ", "{LF}{LF}"
                       \o <<"I", "n", "t", "r", "o", "d", "u", "c", "i", "n", "g", " ">> \o name \o <<" ", "-", " ">> \o description \o <<"LF", "LF">>
                       \* "What makes it special:{LF}", "  - "
                       \o <<"W", "h", "a", "t", " ", "m", "a", "k", "e", "s", " ", "i", "t", " ",
                            "s", "p", "e", "c", "i", "a", "l", ":", "LF">> \o JoinPoints(points, <<" ", " ", "-",
                                                                                 " ">>)
                       \* "{LF}{LF}"
                       \o <<"LF", "LF">>
                       \* "Don't miss out on this opportunity to upgrade your routine."
                       \o <<"D", "o", "n", "'", "t", " ", "m", "i", "s", "s", " ", "o", "u", "t",
                            " ", "o", "n", " ", "t", "h", "i", "s", " ",
                            "o", "p", "p", "o", "r", "t", "u", "n", "i",
                            "t", "y", " ", "t", "o", " ", "u", "p", "g",
                            "r", "a", "d", "e", " ", "y", "o", "u", "r",
                            " ", "r", "o", "u", "t", "i", "n", "e", ".">>
                       \* "{LF}{LF}"
                       \o <<"LF", "LF">>
                       \* "Best,{LF}The Team"
                       \o <<"B", "e", "s", "t", ",", "LF", "T", "h", "e", " ", "T", "e", "a", "m">>
                       \o (IF tone_modifier = <<>> THEN <<>>
                           \* "{LF}{LF}P.S. "
                           ELSE <<"LF", "LF", "P", ".", "S", ".", " ">> \o tone_modifier),
                   \* "Shop Now"
                   <<"S", "h", "o", "p", " ", "N", "o", "w">>>>
          \* "sms"
          [] ad_type = <<"s", "m", "s">> ->
                 <<name,
                   \* "Hey! ", " is finally back in stock. "
                   <<"H", "e", "y", "!", " ">> \o name \o <<" ", "i", "s", " ", "f", "i", "n", "a", "l", "l", "y",
                                          " ", "b", "a",
                                          "c", "k", " ",
                                          "i", "n", " ",
                                          "s", "t", "o",
                                          "c", "k", ".",
                                          " ">> \o points[1]
                       \* " Get yours: [LINK]"
                       \o <<" ", "G", "e", "t", " ", "y", "o", "u", "r", "s", ":", " ", "[", "L",
                            "I", "N", "K", "]">>
                       \* " "
                       \o (IF tone_modifier = <<>> THEN <<>> ELSE <<" ">> \o tone_modifier),
                   \* "Reply STOP to unsubscribe"
                   <<"R", "e", "p", "l", "y", " ", "S", "T", "O", "P", " ", "t", "o", " ", "u",
                     "n", "s", "u", "b", "s", "c", "r", "i", "b", "e">>>>
          [] OTHER ->
                 \* "Discover ", " - ", "Learn More"
                 <<<<"D", "i", "s", "c", "o", "v", "e", "r", " ">> \o name, name \o <<" ", "-", " ">> \o description, <<"L", "e", "a", "r",
                                                                            "n",
                                                                            " ",
                                                                            "M",
                                                                            "o",
                                                                            "r",
                                                                            "e">>>>

\* ------------------------------------------------------------------------
\* The stored rows: products, ad_copies and affiliate_links of affilai.db.
\* Each table is a function from the row id to the other columns.  Timestamps
\* and the campaigns table are left out.  A command takes one tick of the clock,
\* which runs to MaxClock.
\* ------------------------------------------------------------------------
\* one command is handled: time passes
Handled == now < MaxClock /\ now' = now + 1 /\ UNCHANGED <<product, calls>>

\* the id SQLite gives the next inserted row: one more than the largest rowid
last_insert_rowid(table) ==
    IF DOMAIN table = {} THEN 1
    ELSE 1 + CHOOSE i \in DOMAIN table : \A j \in DOMAIN table : j <= i

\* the table without the row id
DeleteRow(table, id) == [i \in DOMAIN table \ {id} |-> table[i]] @@ <<>>

InsertRow(table, id, row) == (id :> row) @@ table

\* "Query returned no rows"
QueryReturnedNoRows == <<"Q", "u", "e", "r", "y", " ", "r", "e", "t", "u", "r", "n", "e", "d", " ",
                         "n", "o", " ", "r", "o", "w", "s">>

\* "Product not found: "
ProductNotFound == <<"P", "r", "o", "d", "u", "c", "t", " ", "n", "o", "t", " ", "f", "o", "u",
                     "n", "d", ":", " ">> \o QueryReturnedNoRows

\* the row create_product inserts: an absent trending score is stored as 0; the
\* platform identifier columns are not written
StoredProduct(input) ==
    [name            |-> input.name,
     category        |-> input.category,
     description     |-> input.description,
     price_range     |-> input.price_range,
     target_audience |-> input.target_audience,
     trending_score  |-> Some(unwrap_or(input.trending_score, 0)),
     ids             |-> {}]

UpdateFields == {"name", "category", "description", "price_range", "target_audience",
                 "trending_score"}

\* the row after UPDATE products SET <the fields that are Some>
UpdatedProduct(p, input) ==
    [f \in DOMAIN p |->
        IF f \in UpdateFields /\ is_some(input[f])
        THEN (IF f \in {"name", "category"} THEN unwrap_or(input[f], <<>>) ELSE input[f])
        ELSE p[f]] @@ <<>>

\* ------------------------------------------------------------------------
\* The inputs of the commands
\* ------------------------------------------------------------------------
\* "Smart Ring"
StoreName == <<"S", "m", "a", "r", "t", " ", "R", "i", "n", "g">>

CreateProductInputs ==
    \* "Beauty & Skincare"
    {[name |-> StoreName, category |-> <<"B", "e", "a", "u", "t", "y", " ", "&", " ", "S", "k",
                                         "i", "n", "c", "a",
                                         "r", "e">>,
      \* "Tracks sleep."
      description |-> Some(<<"T", "r", "a", "c", "k", "s", " ", "s", "l", "e", "e", "p", ".">>), price_range |-> None,
      target_audience |-> None, trending_score |-> t] : t \in {None, Some(85)}}
    \* "Consumer Electronics"
    \cup {[name |-> StoreName, category |-> <<"C", "o", "n", "s", "u", "m", "e", "r", " ", "E",
                                              "l", "e",
                                              "c", "t",
                                              "r", "o",
                                              "n", "i",
                                              "c", "s">>, description |-> None,
           \* "$300-400", "Age 18-24"
           price_range |-> Some(<<"$", "3", "0", "0", "-", "4", "0", "0">>), target_audience |-> Some(<<"A", "g", "e", " ", "1",
                                                                          "8",
                                                                          "-",
                                                                          "2",
                                                                          "4">>),
           trending_score |-> Some(60)]}
    \* tiktok, instagram and pinterest all score 1.0 for this one
    \* "Fashion & Apparel"
    \cup {[name |-> StoreName, category |-> <<"F", "a", "s", "h", "i", "o", "n", " ", "&", " ",
                                              "A", "p",
                                              "p", "a",
                                              "r", "e",
                                              "l">>, description |-> None,
           \* "$30-$40", "Age 25-35"
           price_range |-> Some(<<"$", "3", "0", "-", "$", "4", "0">>), target_audience |-> Some(<<"A", "g", "e", " ", "2",
                                                                         "5",
                                                                         "-",
                                                                         "3",
                                                                         "5">>),
           trending_score |-> Some(85)]}

NoUpdate ==
    [name |-> None, category |-> None, description |-> None, price_range |-> None,
     target_audience |-> None, trending_score |-> None]

UpdateProductInputs == {NoUpdate, [NoUpdate EXCEPT !.trending_score = Some(85)]}

\* every product row the commands can store with these inputs
StoreProducts ==
    LET created == {StoredProduct(input) : input \in CreateProductInputs}
    IN  created \cup {UpdatedProduct(p, input) : p \in created, input \in UpdateProductInputs}

\* the ids a caller asks for
RequestIds == {1, 2}

\* "email", "Email"
AdTypeArgs == {None, Some(<<"e", "m", "a", "i", "l">>), Some(<<"E", "m", "a", "i", "l">>)}

\* "TikTok", "facebook"
PlatformArgs == {<<"T", "i", "k", "T", "o", "k">>, <<"f", "a", "c", "e", "b", "o", "o", "k">>}

\* the discovery and the market analysis of the product rows, computed once; a
\* command reads them as the tables discovery and analysis
DiscoveryOf ==
    [k \in StoreProducts \X BOOLEAN |-> discover_affiliate_programs(k[1], k[2])] @@ <<>>

MarketAnalysisOf ==
    [k \in StoreProducts \X BOOLEAN |->
        ad_generation_analyze_market_for_product(k[1], k[2])] @@ <<>>

\* ------------------------------------------------------------------------
\* products.rs
\* ------------------------------------------------------------------------
CreateProduct ==
    \E input \in CreateProductInputs :
        LET id == last_insert_rowid(db.products)
        IN  /\ db' = [db EXCEPT !.products = InsertRow(@, id, StoredProduct(input))]
            /\ ret' = [op |-> "create_product", args |-> [input |-> input],
                       val |-> [status |-> "ok", id |-> id,
                                product |-> StoredProduct(input)]]
            /\ Handled

UpdateProduct ==
    \E id \in RequestIds, input \in UpdateProductInputs :
        /\ IF input = NoUpdate
           THEN /\ ret' = [op |-> "update_product", args |-> [id |-> id, input |-> input],
                           \* "No fields to update"
                           val |-> [status |-> "err", error |-> <<"N", "o", " ", "f", "i", "e",
                                                                  "l",
                                                                  "d",
                                                                  "s",
                                                                  " ",
                                                                  "t",
                                                                  "o",
                                                                  " ",
                                                                  "u",
                                                                  "p",
                                                                  "d",
                                                                  "a",
                                                                  "t",
                                                                  "e">>]]
                /\ db' = db
           ELSE IF id \notin DOMAIN db.products
           THEN /\ ret' = [op |-> "update_product", args |-> [id |-> id, input |-> input],
                           val |-> [status |-> "err", error |-> QueryReturnedNoRows]]
                /\ db' = db
           ELSE /\ ret' = [op |-> "update_product", args |-> [id |-> id, input |-> input],
                           val |-> [status |-> "ok", id |-> id,
                                    product |-> UpdatedProduct(db.products[id], input)]]
                /\ db' = [db EXCEPT !.products[id] = UpdatedProduct(@, input)]
        /\ Handled

\* DELETE FROM products; where foreign keys are enforced the ad copies of the
\* product keep their row and lose the reference (ON DELETE SET NULL)
DeleteProduct ==
    \E id \in RequestIds :
        /\ db' = [db EXCEPT
                    !.products = DeleteRow(@, id),
                    !.ad_copies =
                        IF db.foreign_keys
                        THEN [a \in DOMAIN @ |->
                                 IF @[a].product_id = Some(id)
                                 THEN [@[a] EXCEPT !.product_id = None] ELSE @[a]] @@ <<>>
                        ELSE @]
        /\ ret' = [op |-> "delete_product", args |-> [id |-> id], val |-> [status |-> "ok"]]
        /\ Handled

\* ------------------------------------------------------------------------
\* affiliate_links.rs
\* ------------------------------------------------------------------------
\* a faulty variant: a missing row is taken for a product without programs
discover_affiliate_programs_no_row(d, product_id, overflow_checks, discovery) ==
    IF product_id \notin DOMAIN d.products
    THEN [status |-> "ok", error |-> <<>>, programs |-> <<>>]
    ELSE LET found == discovery[<<d.products[product_id], overflow_checks>>]
         IN  [status |-> found.status, error |-> <<>>, programs |-> found.programs]

\* the command on a product id: the row is read, then the platforms are scored
discover_affiliate_programs_by_id(d, product_id, overflow_checks, discovery) ==
    IF product_id \notin DOMAIN d.products
    THEN [status |-> "err", error |-> ProductNotFound, programs |-> <<>>]
    ELSE LET found == discovery[<<d.products[product_id], overflow_checks>>]
         IN  [status |-> found.status, error |-> <<>>, programs |-> found.programs]

\* Iterator::max_by on the audience match: the fold keeps the element met so far
\* only if it is greater, so of equal maxima the last one is returned
RECURSIVE max_by_fold(_, _)
max_by_fold(best, rest) ==
    IF rest = <<>> THEN best
    ELSE max_by_fold(IF FGt(best.audience_match_score, Head(rest).audience_match_score)
                     THEN best ELSE Head(rest),
                     Tail(rest))

max_by_audience_match(programs) == max_by_fold(Head(programs), Tail(programs))

\* a faulty variant: the requested name is compared as it was written
find_platform_exact(programs, platform) ==
    LET hits == {i \in 1..Len(programs) : PlatformToString(programs[i].platform) = platform}
    IN  IF hits = {} THEN None
        ELSE Some(programs[CHOOSE i \in hits : \A j \in hits : i <= j])

\* programs.find(|p| p.platform.to_string() == request.platform.to_lowercase())
find_platform(programs, platform) ==
    LET hits == {i \in 1..Len(programs) :
                    PlatformToString(programs[i].platform) = to_lowercase(platform)}
    IN  IF hits = {} THEN None
        ELSE Some(programs[CHOOSE i \in hits : \A j \in hits : i <= j])

\* the link of a program is built and inserted with status 'active'
create_affiliate_link(d, product_id, program, clock) ==
    LET product_name == d.products[product_id].name
        platform_str == PlatformToString(program.platform)
        id   == last_insert_rowid(d.affiliate_links)
        link == [product_id      |-> product_id,
                 product_name    |-> product_name,
                 platform        |-> platform_str,
                 program_name    |-> program.program_name,
                 commission_rate |-> Some(program.commission_rate),
                 cookie_duration |-> Some(program.cookie_duration),
                 tracking_url    |-> generate_tracking_url(platform_str, program.program_name,
                                         product_name, program.affiliate_url, clock),
                 destination_url |-> program.affiliate_url,
                 \* "active"
                 status          |-> <<"a", "c", "t", "i", "v", "e">>]
    IN  [status |-> "ok", id |-> id, link |-> link]

\* the table after the INSERT or the UPDATE of a command that returned a link
SaveLink(d, done) ==
    IF done.status = "ok"
    THEN [d EXCEPT !.affiliate_links = InsertRow(@, done.id, done.link)]
    ELSE d

generate_affiliate_link(d, product_id, overflow_checks, clock, discovery) ==
    LET found == discover_affiliate_programs_by_id(d, product_id, overflow_checks, discovery)
    IN  IF found.status # "ok" THEN [status |-> found.status, error |-> found.error]
        ELSE IF found.programs = <<>>
        \* "No affiliate programs found for this product"
        THEN [status |-> "err", error |-> <<"N", "o", " ", "a", "f", "f", "i", "l", "i", "a", "t",
                                            "e", " ",
                                            "p", "r",
                                            "o", "g",
                                            "r", "a",
                                            "m", "s",
                                            " ", "f",
                                            "o", "u",
                                            "n", "d",
                                            " ", "f",
                                            "o", "r",
                                            " ", "t",
                                            "h", "i",
                                            "s", " ",
                                            "p", "r",
                                            "o", "d",
                                            "u", "c",
                                            "t">>]
        ELSE create_affiliate_link(d, product_id, max_by_audience_match(found.programs), clock)

generate_link_for_platform(d, product_id, platform, overflow_checks, clock, discovery) ==
    LET found == discover_affiliate_programs_by_id(d, product_id, overflow_checks, discovery)
        selected_program == find_platform(found.programs, platform)
    IN  IF found.status # "ok" THEN [status |-> found.status, error |-> found.error]
        ELSE IF selected_program = None
        THEN [status |-> "err",
              \* "Platform ", " not available for this product"
              error |-> <<"P", "l", "a", "t", "f", "o", "r", "m", " ">> \o platform \o <<" ", "n", "o", "t", " ", "a", "v", "a", "i",
                                                       "l",
                                                       "a",
                                                       "b",
                                                       "l",
                                                       "e",
                                                       " ",
                                                       "f",
                                                       "o",
                                                       "r",
                                                       " ",
                                                       "t",
                                                       "h",
                                                       "i",
                                                       "s",
                                                       " ",
                                                       "p",
                                                       "r",
                                                       "o",
                                                       "d",
                                                       "u",
                                                       "c",
                                                       "t">>]
        ELSE create_affiliate_link(d, product_id, unwrap_or(selected_program, <<>>), clock)

\* a faulty variant: the regenerated link is stored as a new row
refresh_affiliate_link_as_new(d, link_id, overflow_checks, clock, discovery) ==
    IF link_id \notin DOMAIN d.affiliate_links
    \* "Link not found: "
    THEN [status |-> "err", error |-> <<"L", "i", "n", "k", " ", "n", "o", "t", " ", "f", "o", "u",
                                        "n", "d", ":", " ">> \o QueryReturnedNoRows]
    ELSE LET old   == d.affiliate_links[link_id]
             found == discover_affiliate_programs_by_id(d, old.product_id, overflow_checks,
                                                        discovery)
         IN  IF found.status # "ok" THEN [status |-> found.status, error |-> found.error]
             ELSE create_affiliate_link(d, old.product_id,
                                        max_by_audience_match(found.programs), clock)

\* the link is regenerated for the best platform and updated in place
refresh_affiliate_link(d, link_id, overflow_checks, clock, discovery) ==
    IF link_id \notin DOMAIN d.affiliate_links
    \* "Link not found: "
    THEN [status |-> "err", error |-> <<"L", "i", "n", "k", " ", "n", "o", "t", " ", "f", "o", "u",
                                        "n", "d", ":", " ">> \o QueryReturnedNoRows]
    ELSE LET old   == d.affiliate_links[link_id]
             found == discover_affiliate_programs_by_id(d, old.product_id, overflow_checks,
                                                        discovery)
             best_program == max_by_audience_match(found.programs)
             platform_str == PlatformToString(best_program.platform)
             link  == [old EXCEPT
                         !.platform        = platform_str,
                         !.program_name    = best_program.program_name,
                         !.commission_rate = Some(best_program.commission_rate),
                         !.cookie_duration = Some(best_program.cookie_duration),
                         !.tracking_url    = generate_tracking_url(platform_str,
                                                 best_program.program_name, old.product_name,
                                                 best_program.affiliate_url, clock),
                         !.destination_url = best_program.affiliate_url,
                         \* "active"
                         !.status          = <<"a", "c", "t", "i", "v", "e">>]
         IN  IF found.status # "ok" THEN [status |-> found.status, error |-> found.error]
             ELSE IF found.programs = <<>>
             \* "No affiliate programs found"
             THEN [status |-> "err", error |-> <<"N", "o", " ", "a", "f", "f", "i", "l", "i", "a",
                                                 "t",
                                                 "e",
                                                 " ",
                                                 "p",
                                                 "r",
                                                 "o",
                                                 "g",
                                                 "r",
                                                 "a",
                                                 "m",
                                                 "s",
                                                 " ",
                                                 "f",
                                                 "o",
                                                 "u",
                                                 "n",
                                                 "d">>]
             ELSE [status |-> "ok", id |-> link_id, link |-> link]

\* a faulty variant of the loop: the existence check is left out
RECURSIVE generate_links_loop_unchecked(_, _, _, _, _)
generate_links_loop_unchecked(d, product_ids, overflow_checks, clock, discovery) ==
    IF product_ids = {} THEN d
    ELSE LET product_id == CHOOSE i \in product_ids : \A j \in product_ids : i <= j
             next == SaveLink(d, generate_affiliate_link(d, product_id, overflow_checks,
                                                         clock, discovery))
         IN  generate_links_loop_unchecked(next, product_ids \ {product_id}, overflow_checks,
                                           clock, discovery)

\* one link for every product, in id order, that has none; a failure is logged
\* and the loop goes on
RECURSIVE generate_links_loop(_, _, _, _, _)
generate_links_loop(d, product_ids, overflow_checks, clock, discovery) ==
    IF product_ids = {} THEN d
    ELSE LET product_id == CHOOSE i \in product_ids : \A j \in product_ids : i <= j
             exists == \E l \in DOMAIN d.affiliate_links :
                           d.affiliate_links[l].product_id = product_id
             next == IF exists THEN d
                     ELSE SaveLink(d, generate_affiliate_link(d, product_id, overflow_checks,
                                                              clock, discovery))
         IN  generate_links_loop(next, product_ids \ {product_id}, overflow_checks, clock,
                                 discovery)

DiscoverAffiliatePrograms ==
    \E discovery \in {DiscoveryOf}, product_id \in RequestIds, overflow_checks \in BOOLEAN :
        /\ ret' = [op |-> "discover_affiliate_programs", args |-> [product_id |-> product_id],
                   val |-> discover_affiliate_programs_by_id(db, product_id, overflow_checks,
                                                             discovery)]
        /\ UNCHANGED db /\ Handled

GenerateAffiliateLink ==
    \E discovery \in {DiscoveryOf}, product_id \in RequestIds, overflow_checks \in BOOLEAN :
        \E done \in {generate_affiliate_link(db, product_id, overflow_checks, now, discovery)} :
            /\ db' = SaveLink(db, done)
            /\ ret' = [op |-> "generate_affiliate_link", args |-> [product_id |-> product_id],
                       val |-> done]
            /\ Handled

GenerateLinkForPlatform ==
    \E discovery \in {DiscoveryOf}, product_id \in RequestIds, platform \in PlatformArgs :
      \E overflow_checks \in BOOLEAN :
        \E done \in {generate_link_for_platform(db, product_id, platform, overflow_checks, now,
                                                discovery)} :
            /\ db' = SaveLink(db, done)
            /\ ret' = [op |-> "generate_link_for_platform",
                       args |-> [product_id |-> product_id, platform |-> platform],
                       val |-> done]
            /\ Handled

RefreshAffiliateLink ==
    \E discovery \in {DiscoveryOf}, link_id \in RequestIds, overflow_checks \in BOOLEAN :
        \E done \in {refresh_affiliate_link(db, link_id, overflow_checks, now, discovery)} :
            /\ db' = SaveLink(db, done)
            /\ ret' = [op |-> "refresh_affiliate_link", args |-> [link_id |-> link_id],
                       val |-> done]
            /\ Handled

DeleteAffiliateLink ==
    \E id \in RequestIds :
        /\ db' = [db EXCEPT !.affiliate_links = DeleteRow(@, id)]
        /\ ret' = [op |-> "delete_affiliate_link", args |-> [id |-> id],
                   val |-> [status |-> "ok"]]
        /\ Handled

GenerateLinksForAllProducts ==
    \E discovery \in {DiscoveryOf}, overflow_checks \in BOOLEAN :
        \E done \in {generate_links_loop(db, DOMAIN db.products, overflow_checks, now,
                                         discovery)} :
            /\ db' = done
            /\ ret' = [op |-> "generate_links_for_all_products", args |-> <<>>,
                       val |-> [status |-> "ok",
                                ids |-> DOMAIN done.affiliate_links \ DOMAIN db.affiliate_links]]
            /\ Handled

\* ------------------------------------------------------------------------
\* ad_generation.rs: generate_ad_for_product
\* ------------------------------------------------------------------------
DirectProductAds == 1

generate_ad_for_product(d, product_id, ad_type, custom_instructions, overflow_checks, analysis) ==
    IF product_id \notin DOMAIN d.products
    THEN [status |-> "err", error |-> ProductNotFound]
    ELSE LET p == d.products[product_id]
             market_analysis == analysis[<<p, overflow_checks>>]
             final_ad_type   == unwrap_or(ad_type, market_analysis.recommended_ad_type)
             content == generate_ad_content(p, final_ad_type, market_analysis,
                                            custom_instructions)
             id      == last_insert_rowid(d.ad_copies)
             ad_copy ==
                 [product_id     |-> Some(product_id),
                  campaign_id    |-> DirectProductAds,
                  \* " - ", " Ad"
                  variation_name |-> p.name \o <<" ", "-", " ">> \o final_ad_type \o <<" ", "A", "d">>,
                  headline       |-> content[1],
                  body_text      |-> content[2],
                  cta            |-> content[3],
                  ad_format      |-> final_ad_type,
                  ad_type        |-> final_ad_type,
                  platform_specific_data |->
                      [target_platform   |-> market_analysis.recommended_platform,
                       suggested_tone    |-> market_analysis.suggested_tone,
                       competition_level |-> market_analysis.competition_level],
                  performance_score |-> market_analysis.estimated_engagement_score]
         IN  IF market_analysis.status # "ok"
             THEN [status |-> market_analysis.status, error |-> <<>>]
             ELSE [status |-> "ok", id |-> id, ad_copy |-> ad_copy,
                   market_analysis |-> market_analysis]

GenerateAdForProduct ==
    \E analysis \in {MarketAnalysisOf}, product_id \in RequestIds, ad_type \in AdTypeArgs :
      \E overflow_checks \in BOOLEAN :
        \E done \in {generate_ad_for_product(db, product_id, ad_type, None, overflow_checks,
                                             analysis)} :
            /\ db' = IF done.status = "ok"
                     THEN [db EXCEPT !.ad_copies = InsertRow(@, done.id, done.ad_copy)]
                     ELSE db
            /\ ret' = [op |-> "generate_ad_for_product",
                       args |-> [product_id |-> product_id, ad_type |-> ad_type],
                       val |-> done]
            /\ Handled

InitStore ==
    \* "Beauty & Skincare"
    /\ product = Product(StoreName, <<"B", "e", "a", "u", "t", "y", " ", "&", " ", "S", "k", "i",
                                      "n", "c", "a", "r", "e">>, None, None, None, {})
    /\ ret = NoCall
    /\ now = 0
    /\ db \in {[NoRows EXCEPT !.foreign_keys = fk] : fk \in BOOLEAN}
    /\ calls = NoCalls

\* the commands that write; create_affiliate_link is reached through the
\* commands that generate a link, the credentials are not modelled
NextStore ==
    \/ CreateProduct
    \/ UpdateProduct
    \/ DeleteProduct
    \/ DiscoverAffiliatePrograms
    \/ GenerateAffiliateLink
    \/ GenerateLinkForPlatform
    \/ RefreshAffiliateLink
    \/ DeleteAffiliateLink
    \/ GenerateLinksForAllProducts
    \/ GenerateAdForProduct

SpecStore == InitStore /\ [][NextStore]_vars

\* ------------------------------------------------------------------------
\* The stored rows under the commands
\* ------------------------------------------------------------------------
\* the step is a call of the command op that returned Ok
Returned(op) == ret'.op = op /\ ret'.val.status = "ok"

\* C12: stored ad copy is append-only.  Every step leaves every stored ad-copy
\* row in place with its columns (headline, body, cta, format, product id) as
\* they were, and a successful generate_ad_for_product adds exactly one row,
\* which belongs to the requested product.
C12_AdCopyAppendOnly ==
    [][/\ \A a \in DOMAIN db.ad_copies :
              a \in DOMAIN db'.ad_copies /\ db'.ad_copies[a] = db.ad_copies[a]
       /\ Returned("generate_ad_for_product") =>
              \E a \in DOMAIN db'.ad_copies \ DOMAIN db.ad_copies :
                  /\ DOMAIN db'.ad_copies = DOMAIN db.ad_copies \cup {a}
                  /\ db'.ad_copies[a].product_id = Some(ret'.args.product_id)]_vars

\* the platform names of the programs discovery lists for a product row
ListedNames(p) ==
    {PlatformToString(DiscoveryOf[<<p, FALSE>>].programs[i].platform) :
        i \in 1..Len(DiscoveryOf[<<p, FALSE>>].programs)}

NotAvailable(val, platform) ==
    /\ val.status = "err"
    \* "Platform ", " not available for this product"
    /\ val.error = <<"P", "l", "a", "t", "f", "o", "r", "m", " ">> \o platform \o <<" ", "n", "o", "t", " ", "a", "v", "a", "i", "l",
                                                  "a",
                                                  "b",
                                                  "l",
                                                  "e",
                                                  " ",
                                                  "f",
                                                  "o",
                                                  "r",
                                                  " ",
                                                  "t",
                                                  "h",
                                                  "i",
                                                  "s",
                                                  " ",
                                                  "p",
                                                  "r",
                                                  "o",
                                                  "d",
                                                  "u",
                                                  "c",
                                                  "t">>

\* C13: for a stored product generate_link_for_platform returns the error
\* "Platform <name> not available for this product" exactly when the requested
\* name, lower-cased, is not the platform of a program that discovery lists for
\* the product; a call that returns this error leaves every table as it was.
C13_PlatformNotAvailable ==
    [][(/\ ret'.op = "generate_link_for_platform"
        /\ ret'.args.product_id \in DOMAIN db.products
        /\ ret'.val.status # "panic") =>
           /\ NotAvailable(ret'.val, ret'.args.platform)
                  <=> to_lowercase(ret'.args.platform)
                          \notin ListedNames(db.products[ret'.args.product_id])
           /\ NotAvailable(ret'.val, ret'.args.platform) => db' = db]_vars

\* facebook was requested for a stored product and refused, and TikTok, written
\* with capitals, has a link
C13_Witness ==
    /\ ret.op = "generate_link_for_platform"
    /\ ret.args.product_id \in DOMAIN db.products
    \* "facebook"
    /\ ret.args.platform = <<"f", "a", "c", "e", "b", "o", "o", "k">>
    \* "facebook"
    /\ NotAvailable(ret.val, <<"f", "a", "c", "e", "b", "o", "o", "k">>)
    \* "tiktok"
    /\ \E l \in DOMAIN db.affiliate_links : db.affiliate_links[l].platform = <<"t", "i", "k", "t",
                                                                               "o",
                                                                               "k">>

ByProductId ==
    {"generate_ad_for_product", "discover_affiliate_programs", "generate_affiliate_link",
     "generate_link_for_platform"}

\* C14: called with a product id that has no row, generate_ad_for_product,
\* discover_affiliate_programs, generate_affiliate_link and
\* generate_link_for_platform return an error that says "Product not found", and
\* the ad copies and the affiliate links stay as they were.
C14_UnknownProduct ==
    [][(ret'.op \in ByProductId /\ ret'.args.product_id \notin DOMAIN db.products) =>
           /\ ret'.val.status = "err"
           \* "Product not found"
           /\ contains(ret'.val.error, <<"P", "r", "o", "d", "u", "c", "t", " ", "n", "o", "t",
                                         " ", "f", "o", "u",
                                         "n", "d">>)
           /\ db'.ad_copies = db.ad_copies
           /\ db'.affiliate_links = db.affiliate_links]_vars

\* an ad was asked for a product id without a row while another product has an
\* ad copy
C14_Witness ==
    /\ ret.op = "generate_ad_for_product"
    /\ ret.args.product_id \notin DOMAIN db.products
    /\ ret.val.status = "err"
    /\ db.ad_copies # <<>>

\* the row with a trending score of 50 in place of its own
WithDefaultTrending(row) == [row EXCEPT !.trending_score = Some(DefaultTrending)]

\* C15: a product that create_product stored without a trending score is scored
\* as a product with trending score 50: the platform discovery, the market
\* analysis of generate_ad_for_product and the ad-type analysis of the stored
\* row are those of the row with trending score 50.
C15_AbsentTrendingIsFifty ==
    (ret.op = "create_product" /\ ret.args.input.trending_score = None) =>
        \A row \in {db.products[ret.val.id]} :
            /\ unwrap_or(row.trending_score, DefaultTrending) = DefaultTrending
            /\ discover_affiliate_programs(row, FALSE)
                   = discover_affiliate_programs(WithDefaultTrending(row), FALSE)
            /\ ad_generation_analyze_market_for_product(row, FALSE)
                   = ad_generation_analyze_market_for_product(WithDefaultTrending(row), FALSE)
            /\ analyze_market_for_product(row)
                   = analyze_market_for_product(WithDefaultTrending(row))

\* generate_ad_for_product returned Ok; the product row it read is still stored
Generated == ret.op = "generate_ad_for_product" /\ ret.val.status = "ok"

\* C16: the platform the aggregator recommends is the platform of the first
\* program that discovery lists for the same product row, and that program has
\* the highest audience match of the list; for an empty list it is "instagram".
C16_RecommendedPlatformIsTopDiscovered ==
    \* "instagram"
    /\ recommended_platform(<<>>) = <<"i", "n", "s", "t", "a", "g", "r", "a", "m">>
    /\ Generated =>
           \A programs \in {DiscoveryOf[<<db.products[ret.args.product_id], FALSE>>].programs} :
               /\ programs # <<>>
               /\ ret.val.market_analysis.recommended_platform
                      = PlatformToString(programs[1].platform)
               /\ \A i \in 1..Len(programs) :
                      FGe(programs[1].audience_match_score, programs[i].audience_match_score)

\* an ad was generated for a product stored without audience and price range,
\* whose discovery lists several platforms with different audience matches
C16_Witness ==
    /\ Generated
    /\ db.products[ret.args.product_id].target_audience = None
    /\ db.products[ret.args.product_id].price_range = None
    /\ \E programs \in {DiscoveryOf[<<db.products[ret.args.product_id], FALSE>>].programs} :
           /\ Len(programs) > 1
           /\ programs[Len(programs)].platform # programs[1].platform
           /\ ret.val.market_analysis.recommended_platform
                  = PlatformToString(programs[1].platform)

\* AdType::to_string
AdTypeToString(ad_type) ==
    \* "social_post"
    CASE ad_type = "SocialPost"  -> <<"s", "o", "c", "i", "a", "l", "_", "p", "o", "s", "t">>
      \* "story"
      [] ad_type = "Story"       -> <<"s", "t", "o", "r", "y">>
      \* "video_script"
      [] ad_type = "VideoScript" -> <<"v", "i", "d", "e", "o", "_", "s", "c", "r", "i", "p", "t">>
      \* "carousel"
      [] ad_type = "Carousel"    -> <<"c", "a", "r", "o", "u", "s", "e", "l">>
      \* "email"
      [] ad_type = "Email"       -> <<"e", "m", "a", "i", "l">>
      \* "sms"
      [] ad_type = "Sms"         -> <<"s", "m", "s">>

\* C17: when the caller names no ad type, the format of the ad that
\* generate_ad_for_product stores and returns is the format the ad-type scorer
\* recommends for the product row.
C17_FormatIsScorerRecommendation ==
    (Generated /\ ret.args.ad_type = None) =>
        /\ ret.val.ad_copy.ad_format
               = AdTypeToString(analyze_market_for_product(
                                    db.products[ret.args.product_id]).recommended_ad_type)
        /\ db.ad_copies[ret.val.id].ad_format = ret.val.ad_copy.ad_format

\* ------------------------------------------------------------------------
\* The reasoning text of the ad-type analysis
\* ------------------------------------------------------------------------
\* the position at which pat first occurs in text, 0 if it does not occur
Find(text, pat) ==
    LET at == {i \in 1..(Len(text) - Len(pat) + 1) : SubSeq(text, i, i + Len(pat) - 1) = pat}
    IN  IF at = {} THEN 0 ELSE CHOOSE i \in at : \A j \in at : i <= j

\* how many times pat occurs in text
Occurrences(text, pat) ==
    Cardinality({i \in 1..(Len(text) - Len(pat) + 1) : SubSeq(text, i, i + Len(pat) - 1) = pat})

\* the phrases by which the four clauses are recognised, in the order category,
\* audience, trending, platform
ClausePhrases ==
    \* "category aligns strongly with"
    <<{<<"c", "a", "t", "e", "g", "o", "r", "y", " ", "a", "l", "i", "g", "n", "s", " ", "s", "t",
         "r", "o", "n", "g", "l", "y", " ", "w", "i", "t", "h">>},
      \* "responds well to this format"
      {<<"r", "e", "s", "p", "o", "n", "d", "s", " ", "w", "e", "l", "l", " ", "t", "o", " ", "t",
         "h", "i", "s", " ", "f", "o", "r", "m", "a", "t">>},
      \* "suggests viral potential", "builds trust for products"
      {<<"s", "u", "g", "g", "e", "s", "t", "s", " ", "v", "i", "r", "a", "l", " ", "p", "o", "t",
         "e", "n", "t", "i", "a", "l">>, <<"b", "u", "i", "l", "d", "s", " ", "t", "r", "u", "s", "t",
                                       " ", "f", "o", "r",
                                       " ", "p", "r", "o",
                                       "d", "u", "c", "t",
                                       "s">>},
      \* "which natively supports this format"
      {<<"w", "h", "i", "c", "h", " ", "n", "a", "t", "i", "v", "e", "l", "y", " ", "s", "u", "p",
         "p", "o", "r", "t", "s", " ", "t", "h", "i", "s", " ", "f", "o", "r", "m", "a",
         "t">>}>>

\* where clause k stands in the text, 0 if it is not there
ClauseAt(text, k) ==
    LET at == {Find(text, phrase) : phrase \in ClausePhrases[k]} \ {0}
    IN  IF at = {} THEN 0 ELSE CHOOSE i \in at : \A j \in at : i <= j

\* which of the four clauses qualify for the winner's sub-scores
Qualifies(p, score) ==
    LET trending == unwrap_or(p.trending_score, DefaultTrending)
    IN  <<score.category_score >= 80,
          is_some(p.target_audience) /\ score.audience_score >= 80,
          \/ trending >= 80 /\ score.trending_score >= 90
          \/ trending < 50 /\ score.trending_score >= 70,
          score.platform_score >= 85 /\ p.ids # {}>>

\* the default sentence with the whole number k as the percentage
DefaultSentence(p, ad_type, k) ==
    \* " selected as the balanced choice for '"
    display_name(ad_type) \o <<" ", "s", "e", "l", "e", "c", "t", "e", "d", " ", "a", "s", " ",
                               "t", "h", "e", " ", "b", "a", "l", "a",
                               "n", "c", "e", "d", " ", "c", "h", "o",
                               "i", "c", "e", " ", "f", "o", "r", " ",
                               "'">> \o p.name
    \* "' with confidence ", "%"
    \o <<"'", " ", "w", "i", "t", "h", " ", "c", "o", "n", "f", "i", "d", "e", "n", "c", "e", " ">> \o NatToText(k) \o <<"%">>

\* the weighted total in ten-thousandths, exactly
ExactTotal(score) ==
    score.category_score * 30 + score.audience_score * 35 + score.trending_score * 20
    + score.platform_score * 15

\* C21: the reasoning of analyze_ad_type is never empty.  It is the default
\* sentence (format name, product name, the confidence as a whole-number
\* percentage, a nearest whole number of the exact total) exactly when none of
\* the four clauses qualifies for the winner's sub-scores.  Otherwise it holds
\* the qualifying clauses and no other, in the order category, audience,
\* trending, platform, separated by ". " and ended by a period.
C21_ReasoningFromSubScores ==
    Analyzed =>
        \A score \in {AdTypeScore(product, ret.val.recommended_ad_type)} :
            LET text == ret.val.reasoning
                q    == Qualifies(product, score)
                none == \A k \in 1..4 : ~q[k]
                is_default ==
                    \E k \in 0..100 :
                        /\ ExactTotal(score) - 100 * k \in -50..50
                        /\ text = DefaultSentence(product, score.ad_type, k)
            IN  /\ text # <<>>
                /\ none <=> is_default
                /\ ~none =>
                       /\ \A k \in 1..4 : q[k] <=> ClauseAt(text, k) > 0
                       /\ \A j, k \in 1..4 :
                              (j < k /\ q[j] /\ q[k]) => ClauseAt(text, j) < ClauseAt(text, k)
                       \* ". "
                       /\ Occurrences(text, <<".", " ">>) + 1 = Cardinality({k \in 1..4 : q[k]})
                       /\ text[Len(text)] = "."
                       \* "."
                       /\ Occurrences(text, <<".">>) = Cardinality({k \in 1..4 : q[k]})

\* a winner for which the category, the audience and the platform clause
\* qualify and the trending clause does not
C21_Witness ==
    /\ Analyzed
    /\ Qualifies(product, AdTypeScore(product, ret.val.recommended_ad_type))
           = <<TRUE, TRUE, FALSE, TRUE>>
    \* ". "
    /\ Occurrences(ret.val.reasoning, <<".", " ">>) = 2

\* ------------------------------------------------------------------------
\* The tone and the copy of a generated ad
\* ------------------------------------------------------------------------
\* the tone of an audience by its age band: 18-25 and 18-30 casual, from 45 up
\* professional, every other band friendly
ToneOfBand(age_range) ==
    \* "casual and trendy"
    IF age_range \in {<<18, 25>>, <<18, 30>>} THEN <<"c", "a", "s", "u", "a", "l", " ", "a", "n",
                                                     "d",
                                                     " ",
                                                     "t",
                                                     "r",
                                                     "e",
                                                     "n",
                                                     "d",
                                                     "y">>
    \* "professional and trustworthy"
    ELSE IF age_range[1] >= 45 THEN <<"p", "r", "o", "f", "e", "s", "s", "i", "o", "n", "a", "l",
                                      " ", "a", "n", "d", " ",
                                      "t", "r", "u", "s", "t",
                                      "w", "o", "r", "t", "h",
                                      "y">>
    \* "friendly and engaging"
    ELSE <<"f", "r", "i", "e", "n", "d", "l", "y", " ", "a", "n", "d", " ", "e", "n", "g", "a",
           "g", "i", "n", "g">>

\* C22: the tone generate_ad_for_product suggests is the tone of the age band of
\* the audience text it analysed, which is "Age 25-45" for a product without a
\* target audience; so such a product gets "friendly and engaging".
C22_ToneFollowsAudienceBand ==
    Generated =>
        /\ ret.val.market_analysis.suggested_tone
               = ToneOfBand(extract_age_range(ret.val.market_analysis.target_demographic))
        /\ db.products[ret.args.product_id].target_audience = None
               \* "friendly and engaging"
               => ret.val.market_analysis.suggested_tone = <<"f", "r", "i", "e", "n", "d", "l",
                                                             "y",
                                                             " ",
                                                             "a",
                                                             "n",
                                                             "d",
                                                             " ",
                                                             "e",
                                                             "n",
                                                             "g",
                                                             "a",
                                                             "g",
                                                             "i",
                                                             "n",
                                                             "g">>

\* the inputs of the content synthesizer
ContentProducts ==
    {StoredProduct([name |-> StoreName, category |-> c, description |-> d,
                    price_range |-> None, target_audience |-> None, trending_score |-> None]) :
        \* "Beauty & Skincare", "Consumer Electronics", "Pet Supplies"
        c \in {<<"B", "e", "a", "u", "t", "y", " ", "&", " ", "S", "k", "i", "n", "c", "a", "r",
                 "e">>, <<"C", "o", "n", "s", "u", "m", "e", "r", " ", "E", "l", "e",
                                        "c", "t", "r", "o",
                                        "n", "i", "c", "s">>, <<"P", "e", "t", " ", "S", "u",
                                                                  "p",
                                                                  "p",
                                                                  "l",
                                                                  "i",
                                                                  "e",
                                                                  "s">>},
        \* "Tracks sleep."
        d \in {None, Some(<<"T", "r", "a", "c", "k", "s", " ", "s", "l", "e", "e", "p", ".">>)}}

ContentAdTypes ==
    \* "social_post", "story", "video_script", "carousel", "email", "sms"
    {<<"s", "o", "c", "i", "a", "l", "_", "p", "o", "s", "t">>, <<"s", "t", "o", "r", "y">>, <<"v", "i", "d", "e", "o", "_", "s", "c", "r", "i", "p", "t">>, <<"c", "a", "r", "o", "u", "s", "e", "l">>, <<"e", "m", "a", "i", "l">>, <<"s", "m", "s">>,
     \* "banner", "Email"
     <<"b", "a", "n", "n", "e", "r">>, <<"E", "m", "a", "i", "l">>}

\* "", "Mention free shipping"
CustomInstructions == {None, Some(<<>>), Some(<<"M", "e", "n", "t", "i", "o", "n", " ", "f", "r",
                                                "e",
                                                "e",
                                                " ",
                                                "s",
                                                "h",
                                                "i",
                                                "p",
                                                "p",
                                                "i",
                                                "n",
                                                "g">>)}

ContentAnalysisOf ==
    [p \in ContentProducts |-> ad_generation_analyze_market_for_product(p, FALSE)] @@ <<>>

GenerateAdContent ==
    \E analysis \in {ContentAnalysisOf}, ad_type \in ContentAdTypes :
      \E custom_instructions \in CustomInstructions :
        /\ ret.op = "none"
        /\ ret' = [op   |-> "generate_ad_content",
                   args |-> [ad_type |-> ad_type, custom_instructions |-> custom_instructions,
                             points |-> analysis[product].key_selling_points],
                   val  |-> generate_ad_content(product, ad_type, analysis[product],
                                                custom_instructions)]
        /\ UNCHANGED <<product, now, db, calls>>

InitContent == product \in ContentProducts /\ ret = NoCall /\ now = 0 /\ db = NoRows /\ calls = NoCalls

NextContent == GenerateAdContent

SpecContent == InitContent /\ [][NextContent]_vars

ends_with(text, suffix) ==
    /\ Len(text) >= Len(suffix)
    /\ SubSeq(text, Len(text) - Len(suffix) + 1, Len(text)) = suffix

\* the end of each body when nothing is put in the custom-instruction slot
BareEnd(ad_type) ==
    \* "story", "Swipe up before it sells out! "
    CASE ad_type = <<"s", "t", "o", "r", "y">>        -> <<"S", "w", "i", "p", "e", " ", "u", "p", " ", "b", "e",
                                         "f", "o", "r", "e",
                                         " ", "i", "t", " ",
                                         "s", "e", "l", "l",
                                         "s", " ", "o", "u",
                                         "t", "!", " ">>
      \* "video_script", "[CTA] Link in bio - but hurry, it's selling fast!"
      [] ad_type = <<"v", "i", "d", "e", "o", "_", "s", "c", "r", "i", "p", "t">> -> <<"[", "C", "T", "A", "]", " ", "L", "i", "n", "k", " ",
                                         "i", "n", " ", "b",
                                         "i", "o", " ", "-",
                                         " ", "b", "u", "t",
                                         " ", "h", "u", "r",
                                         "r", "y", ",", " ",
                                         "i", "t", "'", "s",
                                         " ", "s", "e", "l",
                                         "l", "i", "n", "g",
                                         " ", "f", "a", "s",
                                         "t", "!">>
      \* "carousel", "Slide 5: Ready to transform your routine?{LF}{LF}"
      [] ad_type = <<"c", "a", "r", "o", "u", "s", "e", "l">>     -> <<"S", "l", "i", "d", "e", " ", "5", ":", " ", "R", "e",
                                         "a", "d", "y", " ",
                                         "t", "o", " ", "t",
                                         "r", "a", "n", "s",
                                         "f", "o", "r", "m",
                                         " ", "y", "o", "u",
                                         "r", " ", "r", "o",
                                         "u", "t", "i", "n",
                                         "e", "?", "LF",
                                         "LF">>
      \* "email", "Best,{LF}The Team"
      [] ad_type = <<"e", "m", "a", "i", "l">>        -> <<"B", "e", "s", "t", ",", "LF", "T", "h", "e", " ", "T",
                                         "e", "a", "m">>
      \* "sms", " Get yours: [LINK]"
      [] ad_type = <<"s", "m", "s">>          -> <<" ", "G", "e", "t", " ", "y", "o", "u", "r", "s", ":",
                                         " ", "[", "L", "I",
                                         "N", "K", "]">>

\* how each format carries supplied instructions at the end of its body
InstructedEnd(ad_type, instructions) ==
    \* "video_script", "{LF}{LF}[NOTE] "
    CASE ad_type = <<"v", "i", "d", "e", "o", "_", "s", "c", "r", "i", "p", "t">> -> <<"LF", "LF", "[", "N", "O", "T", "E", "]", " ">> \o instructions
      \* "email", "{LF}{LF}P.S. "
      [] ad_type = <<"e", "m", "a", "i", "l">>        -> <<"LF", "LF", "P", ".", "S", ".", " ">> \o instructions
      \* "sms", " "
      [] ad_type = <<"s", "m", "s">>          -> <<" ">> \o instructions
      [] OTHER                      -> instructions

\* "social_post", "story", "video_script", "carousel", "email", "sms"
SixFormats == {<<"s", "o", "c", "i", "a", "l", "_", "p", "o", "s", "t">>, <<"s", "t", "o", "r", "y">>, <<"v", "i", "d", "e", "o", "_", "s", "c", "r", "i", "p",
                                             "t">>, <<"c", "a", "r", "o", "u", "s", "e",
                                                               "l">>, <<"e", "m", "a", "i",
                                                                             "l">>, <<"s", "m",
                                                                                        "s">>}

\* C23: the custom-instruction slot of generate_ad_content.  Instructions that
\* are absent or empty leave the first selling point before the hashtags of the
\* social_post body and leave the other five bodies ending as their template
\* ends; non-empty instructions take the place of the selling point in the
\* social_post body, end the video_script body as "[NOTE] <instructions>" on a
\* line of its own and the email body as "P.S. <instructions>", and are appended
\* to the story, carousel and sms bodies; any other format string gives
\* ("Discover <name>", "<name> - <description>", "Learn More").
C23_CustomInstructionSlot ==
    ret.op = "generate_ad_content" =>
        LET ad_type == ret.args.ad_type
            body    == ret.val[2]
            given   == unwrap_or(ret.args.custom_instructions, <<>>)
            slot    == IF given = <<>> THEN ret.args.points[1] ELSE given
        IN  IF ad_type \notin SixFormats
            \* "Discover "
            THEN ret.val = <<<<"D", "i", "s", "c", "o", "v", "e", "r", " ">> \o product.name,
                             \* " - "
                             product.name \o <<" ", "-", " ">> \o unwrap_or(product.description, <<>>),
                             \* "Learn More"
                             <<"L", "e", "a", "r", "n", " ", "M", "o", "r", "e">>>>
            \* "social_post"
            ELSE IF ad_type = <<"s", "o", "c", "i", "a", "l", "_", "p", "o", "s", "t">>
            \* " "
            THEN ends_with(body, unwrap_or(product.description, <<>>) \o <<" ">> \o slot
                                 \* " #trending #musthave"
                                 \o <<" ", "#", "t", "r", "e", "n", "d", "i", "n", "g", " ", "#",
                                      "m", "u", "s", "t", "h",
                                      "a", "v", "e">>)
            ELSE IF given = <<>>
            THEN ends_with(body, BareEnd(ad_type))
            ELSE ends_with(body, BareEnd(ad_type) \o InstructedEnd(ad_type, given))

\* non-empty instructions have been put into a video_script body
C23_Witness ==
    /\ ret.op = "generate_ad_content"
    \* "video_script"
    /\ ret.args.ad_type = <<"v", "i", "d", "e", "o", "_", "s", "c", "r", "i", "p", "t">>
    \* "Mention free shipping"
    /\ ret.args.custom_instructions = Some(<<"M", "e", "n", "t", "i", "o", "n", " ", "f", "r", "e",
                                             "e", " ",
                                             "s", "h",
                                             "i", "p",
                                             "p", "i",
                                             "n", "g">>)
    \* "{LF}{LF}[NOTE] Mention free shipping"
    /\ ends_with(ret.val[2], <<"LF", "LF", "[", "N", "O", "T", "E", "]", " ", "M", "e", "n", "t",
                               "i", "o", "n", " ", "f", "r", "e", "e",
                               " ", "s", "h", "i", "p", "p", "i", "n",
                               "g">>)

\* C23 as stated: whenever custom_instructions is supplied, the social_post
\* body carries it instead of the first selling point, the video_script body
\* ends with a "[NOTE] <instructions>" line and the email body with
\* "P.S. <instructions>".
C23_SuppliedInstructionsAlwaysShown ==
    (ret.op = "generate_ad_content" /\ ret.args.custom_instructions # None) =>
        LET ad_type == ret.args.ad_type
            body    == ret.val[2]
            given   == unwrap_or(ret.args.custom_instructions, <<>>)
        \* "social_post"
        IN  /\ ad_type = <<"s", "o", "c", "i", "a", "l", "_", "p", "o", "s", "t">>
                  \* " "
                  => ends_with(body, unwrap_or(product.description, <<>>) \o <<" ">> \o given
                                     \* " #trending #musthave"
                                     \o <<" ", "#", "t", "r", "e", "n", "d", "i", "n", "g", " ",
                                          "#", "m", "u",
                                          "s", "t", "h",
                                          "a", "v", "e">>)
            \* "video_script", "{LF}[NOTE] "
            /\ ad_type = <<"v", "i", "d", "e", "o", "_", "s", "c", "r", "i", "p", "t">> => ends_with(body, <<"LF", "[", "N", "O", "T", "E", "]",
                                                               " ">> \o given)
            \* "email", "P.S. "
            /\ ad_type = <<"e", "m", "a", "i", "l">> => ends_with(body, <<"P", ".", "S", ".", " ">> \o given)

\* ------------------------------------------------------------------------
\* The platforms a discovery always lists
\* ------------------------------------------------------------------------
AlwaysListed == {"InstagramShopping", "AmazonAssociates", "YouTubeShopping", "PinterestBuyable"}

ProgramOf(platform_enum) ==
    ret.val.programs[CHOOSE i \in 1..Len(ret.val.programs) :
                         ret.val.programs[i].platform = platform_enum]

\* 0.9349999999999999 = 8421731303182827 * 2^-53, the f64 next below 0.935
JustBelow0935 == [m |-> <<4587, 15073, 14417, 1914>>, e |-> -53]

LinkMade ==
    /\ ret.op \in {"generate_affiliate_link", "refresh_affiliate_link"}
    /\ ret.val.status = "ok"

\* C25: the link that generate_affiliate_link or refresh_affiliate_link stores
\* is for the platform of the first program that discovery lists for the link's
\* product, which is the platform the aggregator recommends, also when several
\* platforms share the highest audience match.
C25_LinkForFirstDiscovered ==
    LinkMade =>
        \A programs \in {DiscoveryOf[<<db.products[ret.val.link.product_id], FALSE>>].programs} :
            /\ ret.val.link.platform = PlatformToString(programs[1].platform)
            /\ ret.val.link.platform = recommended_platform(programs)

\* ------------------------------------------------------------------------
\* The format stored with an ad copy
\* ------------------------------------------------------------------------

\* C26: the ad_type and the ad_format of every stored ad-copy row is one of
\* social_post, story, video_script, carousel, email, sms, whatever ad type the
\* callers of generate_ad_for_product supplied.
C26_StoredFormatIsAdFormat ==
    \A a \in DOMAIN db.ad_copies :
        db.ad_copies[a].ad_type \in SixFormats /\ db.ad_copies[a].ad_format \in SixFormats

\* ------------------------------------------------------------------------
\* Links for all products
\* ------------------------------------------------------------------------
LinksOf(d, product_id) ==
    {l \in DOMAIN d.affiliate_links : d.affiliate_links[l].product_id = product_id}

Refreshed == ret.op = "refresh_affiliate_link" /\ ret.val.status = "ok"

\* C29: refresh_affiliate_link changes a link in place.  A successful call
\* leaves the set of stored link ids as it was, returns the link under the
\* requested id with its product_id and product_name as before and the status
\* 'active', and leaves every other link as it was; a call for an unknown link
\* id, or for a link whose product is no longer stored, returns an error, and a
\* call that returns an error leaves every link as it was.
C29_RefreshInPlace ==
    [][ret'.op = "refresh_affiliate_link" =>
          LET link_id == ret'.args.link_id
              links   == db.affiliate_links
          IN  /\ (link_id \notin DOMAIN links
                      \/ links[link_id].product_id \notin DOMAIN db.products)
                    => ret'.val.status = "err"
              /\ ret'.val.status # "ok" => db'.affiliate_links = links
              /\ ret'.val.status = "ok" =>
                    /\ DOMAIN db'.affiliate_links = DOMAIN links
                    /\ ret'.val.id = link_id
                    /\ db'.affiliate_links[link_id] = ret'.val.link
                    /\ ret'.val.link.product_id = links[link_id].product_id
                    /\ ret'.val.link.product_name = links[link_id].product_name
                    \* "active"
                    /\ ret'.val.link.status = <<"a", "c", "t", "i", "v", "e">>
                    /\ \A l \in DOMAIN links \ {link_id} : db'.affiliate_links[l] = links[l]]_vars

\* a stored link has been refreshed and is stored under its id as returned
C29_Witness ==
    /\ Refreshed
    /\ ret.val.id = ret.args.link_id
    /\ ret.val.id \in DOMAIN db.affiliate_links
    /\ db.affiliate_links[ret.val.id] = ret.val.link
    /\ ret.val.link.product_id \in DOMAIN db.products

\* ------------------------------------------------------------------------
\* The tracking id of a tracking URL
\* ------------------------------------------------------------------------

\* the number after "afl_" in a tracking URL
TrackingNumber(url) ==
    \* "afl_"
    LET at == Find(url, <<"a", "f", "l", "_">>) + 4
    IN  unwrap_or(parse_i32(SubSeq(url, at, DigitRunEnd(url, at) - 1)), 0 - 1)

\* C30: tracking ids are unique and never decrease.  Of two tracking URLs built
\* by two calls of generate_tracking_url, one after the other, the later one
\* carries an "afl_<epoch milliseconds>" id that differs from the id of the
\* earlier one and is not smaller.
C30_TrackingIdsUnique ==
    [][(ret.op = "generate_tracking_url" /\ ret'.op = "generate_tracking_url" /\ ret' # ret) =>
          /\ TrackingNumber(ret'.val.url) # TrackingNumber(ret.val.url)
          /\ TrackingNumber(ret'.val.url) >= TrackingNumber(ret.val.url)]_vars

\* ------------------------------------------------------------------------
\* Commands in flight at the same time.  Every statement runs on a connection
\* of its own (database/mod.rs: get_connection opens one per call) and no
\* transaction or lock spans two statements, so the statements of two commands
\* interleave.  The product rows do not change here, so the reads that
\* generate_affiliate_link makes of them are taken together with its INSERT.
\* ------------------------------------------------------------------------
Callers == {1, 2}

LinksForAll == "generate_links_for_all_products"

\* SELECT id FROM products: the ids in rowid order
RECURSIVE IdsInOrder(_)
IdsInOrder(ids) ==
    IF ids = {} THEN <<>>
    ELSE LET first == CHOOSE i \in ids : \A j \in ids : i <= j
         IN  <<first>> \o IdsInOrder(ids \ {first})

\* a command that has been invoked and has not run a statement yet
Invoked(op, product_ids) ==
    [op |-> op, pc |-> IF op = LinksForAll THEN "select" ELSE "generate",
     product_ids |-> product_ids, generated |-> {}]

\* the loop goes on with the next product id, or the command returns
Advance(call) ==
    [call EXCEPT !.product_ids = Tail(@),
                 !.pc = IF call.op = LinksForAll /\ Tail(call.product_ids) # <<>>
                        THEN "check" ELSE "done"]

SelectProductIds ==
    \E c \in Callers :
        /\ calls[c].pc = "select"
        /\ calls' = [calls EXCEPT ![c].product_ids = IdsInOrder(DOMAIN db.products),
                                  ![c].pc = IF DOMAIN db.products = {} THEN "done" ELSE "check"]
        /\ UNCHANGED <<product, ret, now, db>>

\* SELECT COUNT(*) FROM affiliate_links WHERE product_id = ?1
CheckExists ==
    \E c \in Callers :
        /\ calls[c].pc = "check"
        /\ calls' = [calls EXCEPT ![c] = IF LinksOf(db, Head(@.product_ids)) # {}
                                         THEN Advance(@)
                                         ELSE [@ EXCEPT !.pc = "generate"]]
        /\ UNCHANGED <<product, ret, now, db>>

\* generate_affiliate_link for the product at hand
GenerateInFlight ==
    \E discovery \in {DiscoveryOf}, c \in Callers :
        /\ calls[c].pc = "generate"
        /\ \E done \in {generate_affiliate_link(db, Head(calls[c].product_ids), FALSE, now,
                                                discovery)} :
              /\ db' = SaveLink(db, done)
              /\ calls' = [calls EXCEPT ![c] =
                              Advance([@ EXCEPT !.generated =
                                          @ \cup (IF done.status = "ok" THEN {done.id} ELSE {})])]
        /\ now' = now + 1
        /\ UNCHANGED <<product, ret>>

OverlapProducts ==
    \* "Fashion & Apparel"
    <<StoredProduct([name |-> StoreName, category |-> <<"F", "a", "s", "h", "i", "o", "n", " ",
                                                        "&",
                                                        " ",
                                                        "A",
                                                        "p",
                                                        "p",
                                                        "a",
                                                        "r",
                                                        "e",
                                                        "l">>,
                     \* "$30-$40"
                     description |-> None, price_range |-> Some(<<"$", "3", "0", "-", "$", "4",
                                                                  "0">>),
                     \* "Age 25-35"
                     target_audience |-> Some(<<"A", "g", "e", " ", "2", "5", "-", "3", "5">>), trending_score |-> Some(85)]),
      \* "Beauty & Skincare"
      StoredProduct([name |-> StoreName, category |-> <<"B", "e", "a", "u", "t", "y", " ", "&",
                                                        " ",
                                                        "S",
                                                        "k",
                                                        "i",
                                                        "n",
                                                        "c",
                                                        "a",
                                                        "r",
                                                        "e">>,
                     \* "Tracks sleep."
                     description |-> Some(<<"T", "r", "a", "c", "k", "s", " ", "s", "l", "e", "e",
                                            "p", ".">>), price_range |-> None,
                     target_audience |-> None, trending_score |-> Some(85)])>>

\* one or two products are stored without a link, and two commands are invoked
InitOverlap ==
    /\ product = OverlapProducts[1]
    /\ ret = NoCall
    /\ now = 0
    /\ \E n \in 1..Len(OverlapProducts), fk \in BOOLEAN :
          db = [NoRows EXCEPT !.foreign_keys = fk,
                              !.products = [i \in 1..n |-> OverlapProducts[i]]]
    /\ \E other \in {Invoked(LinksForAll, <<>>)}
                     \cup {Invoked("generate_affiliate_link", <<i>>) : i \in DOMAIN db.products} :
          calls = [c \in Callers |-> IF c = 1 THEN Invoked(LinksForAll, <<>>) ELSE other]

NextOverlap == SelectProductIds \/ CheckExists \/ GenerateInFlight

SpecOverlap == InitOverlap /\ [][NextOverlap]_vars

AllReturned == calls # NoCalls /\ \A c \in Callers : calls[c].pc = "done"

\* C28: when commands overlap, no insert of one command comes between the
\* existence check and the insert that generate_links_for_all_products makes
\* for a product, and when two overlapping generate_links_for_all_products have
\* returned, every product, none of which had a link, has exactly one.
C28_OneLinkUnderOverlap ==
    /\ \A c \in DOMAIN calls :
          (calls[c].op = LinksForAll /\ calls[c].pc = "generate")
              => LinksOf(db, Head(calls[c].product_ids)) = {}
    /\ (AllReturned /\ \A c \in Callers : calls[c].op = LinksForAll)
          => \A p \in DOMAIN db.products : Cardinality(LinksOf(db, p)) = 1
====
